---- MODULE Spec2Model ----
(***************************************************************************)
(* Model of the composer: the composition builder, the compiler from a     *)
(* composition to a flat FSM, and the conductor that interprets the FSM    *)
(* across platform invocations.  Two variants of the conductor exist in    *)
(* the repository: src/unnamed/part_000 ("offset": relative jumps) and     *)
(* src/composer.js ("pointer": state pointers linearised to indices).      *)
(***************************************************************************)
EXTENDS Integers, Sequences, FiniteSets, TLC

(***************************************************************************)
(* JSON / JavaScript values.  Every value carries its kind in field k, so  *)
(* that values of different kinds can be compared.                         *)
(***************************************************************************)
Undefined == [k |-> "undefined"]
Null == [k |-> "null"]
Num(n) == [k |-> "number", v |-> n]
Bool(b) == [k |-> "boolean", v |-> b]
Str(s) == [k |-> "string", v |-> s]
Obj(f) == [k |-> "object", v |-> f]
Arr(s) == [k |-> "array", v |-> s]
\* a JavaScript function value (only ever the result of a user function)
Fn == [k |-> "function"]

NoFields == [x \in {} |-> Undefined]
EmptyObj == Obj(NoFields)

\* typeof x
TypeOf(x) ==
    IF x.k \in {"null", "object", "array"} THEN "object" ELSE x.k

\* JavaScript truthiness
Truthy(x) ==
    CASE x.k = "undefined" -> FALSE
      [] x.k = "null" -> FALSE
      [] x.k = "number" -> x.v # 0
      [] x.k = "boolean" -> x.v
      [] x.k = "string" -> x.v # ""
      [] OTHER -> TRUE

Has(x, key) == x.k = "object" /\ key \in DOMAIN x.v

\* x[key] for x neither null nor undefined
Get(x, key) == IF Has(x, key) THEN x.v[key] ELSE Undefined

\* x[key] = val on a plain object
Put(x, key, val) == Obj([f \in DOMAIN x.v \cup {key} |-> IF f = key THEN val ELSE x.v[f]])

\* delete x[key]
Delete(x, key) == Obj([f \in DOMAIN x.v \ {key} |-> x.v[f]])

\* Object.assign(acc, src) on plain objects
Assign(acc, src) ==
    Obj([f \in DOMAIN acc.v \cup DOMAIN src.v |-> IF f \in DOMAIN src.v THEN src.v[f] ELSE acc.v[f]])

\* JSON.parse(JSON.stringify(x)) inside an object or array: undefined and
\* functions are dropped from objects and become null in arrays
RECURSIVE JSONInner(_)
JSONInner(x) ==
    CASE x.k = "object" ->
           LET keep == {f \in DOMAIN x.v : x.v[f].k \notin {"undefined", "function"}}
           IN  Obj([f \in keep |-> JSONInner(x.v[f])])
      [] x.k = "array" ->
           Arr([i \in 1..Len(x.v) |->
                  IF x.v[i].k \in {"undefined", "function"} THEN Null ELSE JSONInner(x.v[i])])
      [] OTHER -> x

\* JSON.parse(JSON.stringify(x)): JSON.stringify(undefined) is undefined and
\* JSON.parse(undefined) throws a SyntaxError
SyntaxError == [k |-> "SyntaxError"]
JSONClone(x) == IF x.k \in {"undefined", "function"} THEN SyntaxError ELSE JSONInner(x)

isObject(x) == x.k = "object"

(***************************************************************************)
(* The composition builder (class Composer).  A composition is the JSON    *)
(* the builder produces: a node [type |-> ..., ...] or an array of nodes,  *)
(* written [array |-> <<...>>].  Options are a record; NoOptions is the    *)
(* absent or empty options object.                                         *)
(***************************************************************************)
NoOptions == [x \in {} |-> TRUE]

IsArray(json) == "array" \in DOMAIN json

\* validate(options): undefined for no or empty options, a JSON copy otherwise
validate(options) == options

\* a node with its options field, which JSON drops when validate gave undefined
WithOptions(node, options) ==
    IF validate(options) = NoOptions THEN node
    ELSE [f \in DOMAIN node \cup {"options"} |-> IF f = "options" THEN validate(options) ELSE node[f]]

\* the array branch of the Composition constructor: nested arrays are
\* flattened one level and a one-element array collapses to its element
RECURSIVE Flatten(_)
Flatten(components) ==
    IF Len(components) = 0 THEN <<>>
    ELSE LET rest == Flatten(SubSeq(components, 1, Len(components) - 1))
             component == components[Len(components)]
         IN  IF IsArray(component) THEN rest \o component.array ELSE Append(rest, component)

Composition(composition) ==
    IF IsArray(composition)
    THEN LET flat == Flatten(composition.array)
         IN  IF Len(flat) = 1 THEN flat[1] ELSE [array |-> flat]
    ELSE composition

\* sequence(...): the arguments are compositions already (task is the identity on them)
sequence(components) == Composition([array |-> components])

seq(components) == sequence(components)

\* task(obj) for obj null (NoTask) or a composition
NoTask == [null |-> TRUE]
task(obj) == IF obj = NoTask THEN seq(<<>>) ELSE obj

if(test, consequent, alternate, options) ==
    WithOptions([type |-> "if", test |-> task(test), consequent |-> task(consequent),
                 alternate |-> task(alternate)], options)

while(test, body, options) ==
    WithOptions([type |-> "while", test |-> task(test), body |-> task(body)], options)

try(body, handler, options) ==
    WithOptions([type |-> "try", body |-> task(body), handler |-> task(handler)], options)

finally(body, finalizer, options) ==
    WithOptions([type |-> "finally", body |-> task(body), finalizer |-> task(finalizer)], options)

\* let(declarations, ...body)
let(declarations, body) ==
    [type |-> "let", declarations |-> declarations, body |-> seq(body)]

\* literal(value, options): an absent value is {}
literal(value, options) ==
    WithOptions([type |-> "literal", value |-> IF value = Undefined THEN EmptyObj ELSE value], options)

\* function(exec, options) for exec a function or its source text
function(exec, options) ==
    WithOptions([type |-> "function", exec |-> [kind |-> "nodejs:default", exec |-> exec]], options)

\* action(name, options) without an inline action body
action(name, options) == WithOptions([type |-> "action", name |-> name], options)

\* source text of the helper functions the builder emits
retain_1 == "result => ({ result })"
retain_2 == "({ params, result }) => ({ params, result: result.result })"
retain_3 == "({ params }) => params"
repeat_1 == "() => count-- > 0"
retry_1 == "({ result }) => typeof result.error !== 'undefined' && count-- > 0"
retry_2 == "({ params }) => params"
retry_3 == "({ result }) => result"

\* options without key, and with options.field = 'result'
Without(options, key) == [f \in DOMAIN options \ {key} |-> options[f]]
WithField(options, field) ==
    [f \in DOMAIN options \cup {"field"} |-> IF f = "field" THEN field ELSE options[f]]

\* the last branch of retain: a retain node
retainPlain(body, options) == WithOptions([type |-> "retain", body |-> task(body)], options)

\* retain(body, {catch: true, ...})
retainCatch(body, options) ==
    seq(<<retainPlain(finally(body, function(retain_1, [helper |-> "retain_1"]), NoOptions),
                      Without(options, "catch")),
          function(retain_2, [helper |-> "retain_2"])>>)

\* retain(body, options): filter, then catch, then plain
retain(body, options) ==
    IF "filter" \in DOMAIN options
    THEN LET inner == finally(function(retain_3, [helper |-> "retain_3"]), body, NoOptions)
             opts == WithField(Without(options, "filter"), "result")
         IN  seq(<<retainPlain(function(options.filter, NoOptions), NoOptions),
                   IF "catch" \in DOMAIN opts /\ opts.catch
                   THEN retainCatch(inner, opts) ELSE retainPlain(inner, opts)>>)
    ELSE IF "catch" \in DOMAIN options /\ options.catch
    THEN retainCatch(body, options)
    ELSE retainPlain(body, options)

\* repeat(count, ...body)
repeat(count, body) ==
    let(Obj([count |-> Num(count)]),
        <<while(function(repeat_1, [helper |-> "repeat_1"]), seq(body), NoOptions)>>)

\* retry(count, ...body)
retry(count, body) ==
    LET attempt == retain(seq(body), [catch |-> TRUE])
    IN  let(Obj([count |-> Num(count)]),
            <<attempt,
              while(function(retry_1, [helper |-> "retry_1"]),
                    finally(function(retry_2, [helper |-> "retry_2"]), attempt, NoOptions),
                    NoOptions),
              function(retry_3, [helper |-> "retry_3"])>>)

(***************************************************************************)
(* The compiler of src/unnamed/part_000: a composition becomes an array    *)
(* of states whose next/then/else/catch are offsets relative to the state. *)
(***************************************************************************)
OptionsOf(json) == IF "options" \in DOMAIN json THEN json.options ELSE NoOptions

\* state[key] = val
SetField(state, key, val) ==
    [f \in DOMAIN state \cup {key} |-> IF f = key THEN val ELSE state[f]]

\* fsm[i][key] = val (i from 1)
SetAt(fsm, i, key, val) == [fsm EXCEPT ![i] = SetField(fsm[i], key, val)]

\* a chain that leaves the last state of front without a successor
chainUnlinked(front, back) == front \o back

chain(front, back) == SetAt(front, Len(front), "next", 1) \o back

\* frags.reduce(f) for chain
RECURSIVE ReduceChain(_)
ReduceChain(frags) ==
    IF Len(frags) = 1 THEN frags[1]
    ELSE chain(ReduceChain(SubSeq(frags, 1, Len(frags) - 1)), frags[Len(frags)])

\* a jump from the last state of a while body to the first state of the body
BackToBody(fsm, consequent) == 1 - Len(consequent)

\* the next of the last state of a while body: back over the body and the test
Back(fsm, consequent) == 1 - Len(fsm) - Len(consequent)

RECURSIVE compile(_, _)
compile(json, path) ==
    IF IsArray(json)
    THEN IF Len(json.array) = 0 THEN <<[type |-> "pass", path |-> path]>>
         ELSE ReduceChain([index \in 1..Len(json.array) |->
                  compile(json.array[index], path \o "[" \o ToString(index - 1) \o "]")])
    ELSE
    LET options == OptionsOf(json)
        nosave == "nosave" \in DOMAIN options /\ options.nosave
    IN
    CASE json.type = "action" -> <<[type |-> "action", name |-> json.name, path |-> path]>>
      [] json.type = "function" -> <<[type |-> "function", exec |-> json.exec, path |-> path]>>
      [] json.type = "literal" -> <<[type |-> "literal", value |-> json.value, path |-> path]>>
      [] json.type = "finally" ->
           LET body == compile(json.body, path \o ".body")
               finalizer == compile(json.finalizer, path \o ".finalizer")
               fsm == ReduceChain(<< <<[type |-> "try", path |-> path]>>, body,
                                     <<[type |-> "exit", path |-> path]>>, finalizer >>)
           IN  SetAt(fsm, 1, "catch", Len(fsm) - Len(finalizer))
      [] json.type = "let" ->
           LET body == compile(json.body, path \o ".body")
           IN  ReduceChain(<< <<[type |-> "let", let |-> json.declarations, path |-> path]>>, body,
                              <<[type |-> "exit", path |-> path]>> >>)
      [] json.type = "retain" ->
           LET body == compile(json.body, path \o ".body")
               fsm == ReduceChain(<< <<[type |-> "push", path |-> path]>>, body,
                                     <<[type |-> "pop", collect |-> TRUE, path |-> path]>> >>)
           IN  IF "field" \in DOMAIN options /\ options.field # ""
               THEN SetAt(fsm, 1, "field", options.field) ELSE fsm
      [] json.type = "try" ->
           LET body == compile(json.body, path \o ".body")
               handler == chain(compile(json.handler, path \o ".handler"),
                                <<[type |-> "pass", path |-> path]>>)
               fsm == ReduceChain(<< <<[type |-> "try", path |-> path]>>, body >>)
               fsm1 == SetAt(fsm, 1, "catch", Len(fsm))
               fsm2 == SetAt(fsm1, Len(fsm1), "next", Len(handler))
           IN  fsm2 \o handler
      [] json.type = "if" ->
           LET consequent0 == compile(json.consequent, path \o ".consequent")
               alternate0 == chain(compile(json.alternate, path \o ".alternate"),
                                   <<[type |-> "pass", path |-> path]>>)
               consequent1 == IF ~nosave THEN chain(<<[type |-> "pop", path |-> path]>>, consequent0)
                              ELSE consequent0
               alternate == IF ~nosave THEN chain(<<[type |-> "pop", path |-> path]>>, alternate0)
                            ELSE alternate0
               fsm0 == chain(compile(json.test, path \o ".test"),
                             <<[type |-> "choice", then |-> 1, else |-> Len(consequent1) + 1,
                                path |-> path]>>)
               fsm == IF ~nosave THEN chain(<<[type |-> "push", path |-> path]>>, fsm0) ELSE fsm0
               consequent == SetAt(consequent1, Len(consequent1), "next", Len(alternate))
           IN  fsm \o consequent \o alternate
      [] json.type = "while" ->
           LET consequent0 == compile(json.body, path \o ".body")
               alternate0 == <<[type |-> "pass", path |-> path]>>
               consequent1 == IF ~nosave THEN chain(<<[type |-> "pop", path |-> path]>>, consequent0)
                              ELSE consequent0
               alternate == IF ~nosave THEN chain(<<[type |-> "pop", path |-> path]>>, alternate0)
                            ELSE alternate0
               fsm0 == chain(compile(json.test, path \o ":test"),
                             <<[type |-> "choice", then |-> 1, else |-> Len(consequent1) + 1,
                                path |-> path]>>)
               fsm == IF ~nosave THEN chain(<<[type |-> "push", path |-> path]>>, fsm0) ELSE fsm0
               consequent == SetAt(consequent1, Len(consequent1), "next",
                                   Back(fsm, consequent1))
           IN  fsm \o consequent \o alternate

(***************************************************************************)
(* The compiler of src/composer.js: states point to states, and __init__   *)
(* replaces each pointer by the index of its target (indexOf).  A pointer  *)
(* is modelled by the position of its target in the fragment that holds    *)
(* both states, shifted when the fragment is appended to another.          *)
(***************************************************************************)
Pointers == {"next", "then", "else", "catch"}

Shift(states, d) ==
    [i \in 1..Len(states) |->
        [f \in DOMAIN states[i] |-> IF f \in Pointers THEN states[i][f] + d ELSE states[i][f]]]

\* chain(front, back): front.last().next = back.states[0]; front.states.push(...back.states)
chainP(front, back) == SetAt(front, Len(front), "next", Len(front)) \o Shift(back, Len(front))

RECURSIVE ReduceChainP(_)
ReduceChainP(frags) ==
    IF Len(frags) = 1 THEN frags[1]
    ELSE chainP(ReduceChainP(SubSeq(frags, 1, Len(frags) - 1)), frags[Len(frags)])

\* A pointer to a state of a fragment that is appended later is set once
\* both states are in one fragment, to the position the target has there.
RECURSIVE compileP(_, _)
compileP(json, path) ==
    IF IsArray(json)
    THEN IF Len(json.array) = 0 THEN <<[type |-> "pass", path |-> path]>>
         ELSE ReduceChainP([index \in 1..Len(json.array) |->
                  compileP(json.array[index], path \o ":" \o ToString(index - 1))])
    ELSE
    LET options == OptionsOf(json)
        nosave == "nosave" \in DOMAIN options /\ options.nosave
    IN
    CASE json.type = "action" -> <<[type |-> "action", name |-> json.name, path |-> path]>>
      [] json.type = "function" -> <<[type |-> "function", exec |-> json.exec, path |-> path]>>
      [] json.type = "literal" -> <<[type |-> "literal", value |-> json.value, path |-> path]>>
      [] json.type = "finally" ->
           LET body == compileP(json.body, path \o ":1")
               finalizer == compileP(json.finalizer, path \o ":2")
               fsm == ReduceChainP(<< <<[type |-> "try", path |-> path]>>, body,
                                      <<[type |-> "exit", path |-> path]>>, finalizer >>)
           IN  \* catch: finalizer.states[0]
               SetAt(fsm, 1, "catch", 1 + Len(body) + 1)
      [] json.type = "let" ->
           LET body == compileP(json.body, path \o ":1")
           IN  ReduceChainP(<< <<[type |-> "let", let |-> json.declarations, path |-> path]>>, body,
                               <<[type |-> "exit", path |-> path]>> >>)
      [] json.type = "retain" ->
           LET body == compileP(json.body, path \o ":1")
               fsm == ReduceChainP(<< <<[type |-> "push", path |-> path]>>, body,
                                      <<[type |-> "pop", collect |-> TRUE, path |-> path]>> >>)
           IN  IF "field" \in DOMAIN options /\ options.field # ""
               THEN SetAt(fsm, 1, "field", options.field) ELSE fsm
      [] json.type = "try" ->
           LET body == compileP(json.body, path \o ":1")
               handler == chainP(compileP(json.handler, path \o ":2"),
                                 <<[type |-> "pass", path |-> path]>>)
               fsm == ReduceChainP(<< <<[type |-> "try", path |-> path]>>, body >>)
               all == fsm \o Shift(handler, Len(fsm))
           IN  \* catch: handler.states[0]; fsm.last().next = handler.last()
               SetAt(SetAt(all, 1, "catch", Len(fsm)), Len(fsm), "next", Len(all) - 1)
      [] json.type = "if" ->
           LET consequent0 == compileP(json.consequent, path \o ":2")
               alternate0 == chainP(compileP(json.alternate, path \o ":3"),
                                    <<[type |-> "pass", path |-> path]>>)
               consequent == IF ~nosave THEN chainP(<<[type |-> "pop", path |-> path]>>, consequent0)
                             ELSE consequent0
               alternate == IF ~nosave THEN chainP(<<[type |-> "pop", path |-> path]>>, alternate0)
                            ELSE alternate0
               fsm0 == chainP(compileP(json.test, path \o ":1"),
                              <<[type |-> "choice", path |-> path]>>)
               fsm == IF ~nosave THEN chainP(<<[type |-> "push", path |-> path]>>, fsm0) ELSE fsm0
               all == fsm \o Shift(consequent, Len(fsm))
                          \o Shift(alternate, Len(fsm) + Len(consequent))
               \* then: consequent.states[0], else: alternate.states[0]
               all1 == SetAt(SetAt(all, Len(fsm), "then", Len(fsm)),
                             Len(fsm), "else", Len(fsm) + Len(consequent))
           IN  \* consequent.last().next = alternate.last()
               SetAt(all1, Len(fsm) + Len(consequent), "next", Len(all) - 1)
      [] json.type = "while" ->
           LET consequent0 == compileP(json.body, path \o ":2")
               alternate0 == <<[type |-> "pass", path |-> path]>>
               consequent == IF ~nosave THEN chainP(<<[type |-> "pop", path |-> path]>>, consequent0)
                             ELSE consequent0
               alternate == IF ~nosave THEN chainP(<<[type |-> "pop", path |-> path]>>, alternate0)
                            ELSE alternate0
               fsm0 == chainP(compileP(json.test, path \o ":1"),
                              <<[type |-> "choice", path |-> path]>>)
               fsm == IF ~nosave THEN chainP(<<[type |-> "push", path |-> path]>>, fsm0) ELSE fsm0
               all == fsm \o Shift(consequent, Len(fsm))
                          \o Shift(alternate, Len(fsm) + Len(consequent))
               all1 == SetAt(SetAt(all, Len(fsm), "then", Len(fsm)),
                             Len(fsm), "else", Len(fsm) + Len(consequent))
           IN  \* consequent.last().next = fsm.states[0]
               SetAt(all1, Len(fsm) + Len(consequent), "next", 0)

\* __init__: compile, then replace every field of a state that has a truthy
\* type property by indexOf: pointers become their index, and a literal value
\* or let declarations object with a truthy type field becomes -1
Linearise(st) ==
    [f \in DOMAIN st |->
        IF f \in {"value", "let"} /\ Truthy(Get(st[f], "type")) THEN Num(-1) ELSE st[f]]

init(composition) ==
    LET fsm == compileP(composition, "")
    IN  [i \in 1..Len(fsm) |-> Linearise(fsm[i])]

\* conductor(composition) of src/unnamed/part_000: const fsm = compile(composition)
conductor(composition) == compile(composition, "")

(***************************************************************************)
(* User functions.  A function state holds source text; the functions the  *)
(* model knows are the helpers the builder emits and a few user functions. *)
(* A function is applied to params with the let-bound variables in env and *)
(* gives its result, or throws, and the final values of the variables.     *)
(***************************************************************************)
fail == "() => ({ error: 'e' })"
throw == "() => { throw new Error('x') }"
ok == "() => ({ ok: true })"
inc == "p => ({ n: (p.n || 0) + 1 })"
noop == "() => {}"
yes == "() => true"
no == "() => false"
getFn == "() => () => 1"
one == "() => 1"
text == "() => 's'"
bump == "() => ({ seen: v++ })"
bumpW == "() => ({ seen: w++ })"
bumpThrow == "() => { v = 9; throw new Error('x') }"
unset == "() => { w = 7; v = undefined }"
failMore == "() => ({ error: 'e', x: 1 })"
mutate == "p => { p.x = 2 }"

Ret(v, env) == [thrown |-> FALSE, ret |-> v, env |-> env]
Throw(env) == [thrown |-> TRUE, ret |-> Undefined, env |-> env]

\* a value that can be destructured or dereferenced without a TypeError
Dereferenceable(x) == x.k \notin {"undefined", "null"}

\* count-- > 0 with count a let-bound number; a ReferenceError otherwise
Decrement(env) ==
    IF ~Has(env, "count") \/ env.v["count"].k # "number" THEN Throw(env)
    ELSE Ret(Bool(env.v["count"].v > 0), Put(env, "count", Num(env.v["count"].v - 1)))

UserFunction(code, p, env) ==
    CASE code = retain_1 -> Ret(Obj([result |-> p]), env)
      [] code = retain_2 ->
           IF ~Dereferenceable(p) \/ ~Dereferenceable(Get(p, "result")) THEN Throw(env)
           ELSE Ret(Obj([params |-> Get(p, "params"),
                         result |-> Get(Get(p, "result"), "result")]), env)
      [] code \in {retain_3, retry_2} ->
           IF ~Dereferenceable(p) THEN Throw(env) ELSE Ret(Get(p, "params"), env)
      [] code = repeat_1 -> Decrement(env)
      [] code = retry_1 ->
           IF ~Dereferenceable(p) \/ ~Dereferenceable(Get(p, "result")) THEN Throw(env)
           ELSE IF Get(Get(p, "result"), "error").k = "undefined" THEN Ret(Bool(FALSE), env)
           ELSE Decrement(env)
      [] code = retry_3 ->
           IF ~Dereferenceable(p) THEN Throw(env) ELSE Ret(Get(p, "result"), env)
      [] code = fail -> Ret(Obj([error |-> Str("e")]), env)
      [] code = failMore -> Ret(Obj([error |-> Str("e"), x |-> Num(1)]), env)
      [] code = throw -> Throw(env)
      [] code = ok -> Ret(Obj([ok |-> Bool(TRUE)]), env)
      [] code = inc ->
           IF ~Dereferenceable(p) THEN Throw(env)
           ELSE Ret(Obj([n |-> Num((IF Get(p, "n").k = "number" THEN Get(p, "n").v ELSE 0) + 1)]), env)
      [] code = noop -> Ret(Undefined, env)
      [] code = yes -> Ret(Bool(TRUE), env)
      [] code = no -> Ret(Bool(FALSE), env)
      [] code = getFn -> Ret(Fn, env)
      [] code = one -> Ret(Num(1), env)
      [] code = text -> Ret(Str("s"), env)
      [] code = bump ->
           IF ~Has(env, "v") THEN Throw(env)
           ELSE Ret(Obj([seen |-> env.v["v"]]),
                    IF env.v["v"].k = "number" THEN Put(env, "v", Num(env.v["v"].v + 1)) ELSE env)
      [] code = bumpW ->
           IF ~Has(env, "w") THEN Throw(env)
           ELSE Ret(Obj([seen |-> env.v["w"]]),
                    IF env.v["w"].k = "number" THEN Put(env, "w", Num(env.v["w"].v + 1)) ELSE env)
      [] code = bumpThrow -> Throw(IF Has(env, "v") THEN Put(env, "v", Num(9)) ELSE env)
      [] code = unset ->
           IF ~Has(env, "v") \/ ~Has(env, "w") THEN Ret(Undefined, env)
           ELSE Ret(Undefined, Put(Put(env, "w", Num(7)), "v", Undefined))
      [] code = mutate -> IF ~Dereferenceable(p) THEN Throw(env) ELSE Ret(Undefined, env)

\* the object params after the function has run on it: mutate assigns to p.x
Mutated(code, p) == IF code = mutate /\ p.k = "object" THEN Put(p, "x", Num(2)) ELSE p

(***************************************************************************)
(* The conductor.  A configuration c is [fsm, state, stack, params, alias]: *)
(* the FSM (the pointer variant writes to it), and the variables of invoke. *)
(* alias is the index of the literal state whose value params is (the      *)
(* pointer variant assigns json.value itself to params), -1 when params is *)
(* an object of its own.                                                   *)
(* variant is "offset" (src/unnamed/part_000) or "pointer"                 *)
(* (src/composer.js).  state is a value: a number or undefined.            *)
(* In the pointer variant a let frame holds json.let itself, not a copy:   *)
(* Ref(i) stands for the object fsm.states[i].let.                         *)
(***************************************************************************)
Ref(i) == [k |-> "ref", v |-> i]

Deref(fsm, x) == IF x.k = "ref" THEN fsm[x.v + 1].let ELSE x

\* element.let of a stack element
LetOf(fsm, element) == Deref(fsm, Get(element, "let"))

\* the stack as JSON.stringify writes it
Serialise(fsm, stack) ==
    [i \in 1..Len(stack) |->
        IF Get(stack[i], "let").k = "ref" THEN Put(stack[i], "let", LetOf(fsm, stack[i]))
        ELSE stack[i]]

\* encodeError(error)
encodeError(error) ==
    Obj([code |-> IF Get(error, "code").k = "number" /\ Get(error, "code").v # 0
                  THEN Get(error, "code") ELSE Num(500),
         error |-> IF Get(error, "error").k = "string" /\ Get(error, "error").v # ""
                   THEN Get(error, "error")
                   ELSE IF Truthy(Get(error, "message")) THEN Get(error, "message")
                   ELSE IF error.k = "string" /\ error.v # "" THEN error
                   ELSE Str("An internal error occurred")])

NoReturn == [kind |-> "none"]
Resolve(value) == [kind |-> "resolve", value |-> value]
\* a rejection passes through the catch-all .catch(internalError)
Reject(error) == [kind |-> "reject", value |-> encodeError(error)]
\* a bad request reported as an internal error
badRequestAsInternal(error) == Reject(Obj([code |-> Num(500), error |-> Str(error)]))

badRequest(error) == Reject(Obj([code |-> Num(400), error |-> Str(error)]))
internalError(error) == Reject(encodeError(error))
\* an exception thrown inside invoke
TypeError == Obj([message |-> Str("TypeError")])

\* an unwind that removes the front frame only
UnwindOne(stack) ==
    IF Len(stack) = 0 THEN [state |-> Undefined, stack |-> stack]
    ELSE [state |-> Get(Head(stack), "catch"), stack |-> Tail(stack)]

\* an unwind that finds the first catch frame and removes every frame
UnwindAll(stack) ==
    LET frames == {j \in 1..Len(stack) : Get(stack[j], "catch").k = "number"}
    IN  [state |-> IF frames # {}
                   THEN Get(stack[CHOOSE j \in frames : \A k \in frames : j <= k], "catch")
                   ELSE IF stack = <<>> THEN Undefined ELSE Get(stack[Len(stack)], "catch"),
         stack |-> <<>>]

\* the while loop of inspect: shift frames until one has a number as catch
RECURSIVE Unwind(_)
Unwind(stack) ==
    IF Len(stack) = 0 THEN [state |-> Undefined, stack |-> stack]
    ELSE LET catch == Get(Head(stack), "catch")
         IN  IF catch.k = "number" \/ Len(stack) = 1
             THEN [state |-> catch, stack |-> Tail(stack)]
             ELSE Unwind(Tail(stack))

\* an inspect that leaves state and stack alone when it finds an error
inspectIdle(c) ==
    LET params == IF ~isObject(c.params) THEN Obj([value |-> c.params]) ELSE c.params
    IN  IF Get(params, "error").k # "undefined"
        THEN [c EXCEPT !.params = Obj([error |-> Get(params, "error")]), !.alias = -1]
        ELSE [c EXCEPT !.params = params, !.alias = IF isObject(c.params) THEN c.alias ELSE -1]

\* an inspect that keeps the other fields of params when it finds an error
inspectKeeps(c) ==
    LET params == IF ~isObject(c.params) THEN Obj([value |-> c.params]) ELSE c.params
    IN  IF Get(params, "error").k # "undefined"
        THEN LET u == Unwind(c.stack)
             IN  [c EXCEPT !.params = params, !.state = u.state, !.stack = u.stack, !.alias = -1]
        ELSE [c EXCEPT !.params = params, !.alias = IF isObject(c.params) THEN c.alias ELSE -1]

inspect(c) ==
    LET params == IF ~isObject(c.params) THEN Obj([value |-> c.params]) ELSE c.params
    IN  IF Get(params, "error").k # "undefined"
        THEN LET u == Unwind(c.stack)
             IN  [c EXCEPT !.params = Obj([error |-> Get(params, "error")]),
                           !.state = u.state, !.stack = u.stack, !.alias = -1]
        ELSE [c EXCEPT !.params = params, !.alias = IF isObject(c.params) THEN c.alias ELSE -1]

\* env of run: the let frames collapsed, front-most binding first
RECURSIVE Env(_, _)
Env(fsm, stack) ==
    IF Len(stack) = 0 THEN EmptyObj
    ELSE LET acc == Env(fsm, Tail(stack))
             cur == LetOf(fsm, Head(stack))
         IN  IF cur.k = "object" THEN Assign(acc, cur) ELSE acc

\* element j is the one set(symbol, ...) finds: the front-most with let[symbol] defined
Declares(fsm, stack, j, symbol) == Get(LetOf(fsm, stack[j]), symbol).k # "undefined"
Found(fsm, stack, j, symbol) ==
    /\ Declares(fsm, stack, j, symbol)
    /\ \A i \in 1..(j - 1) : ~Declares(fsm, stack, i, symbol)

\* the let object of element j after set(name, env[name]) for every name of env
SetAll(fsm, stack, j, env) ==
    LET l == LetOf(fsm, stack[j])
    IN  IF l.k # "object" THEN l
        ELSE Obj([f \in DOMAIN l.v |->
                   IF Has(env, f) /\ Found(fsm, stack, j, f) THEN JSONClone(env.v[f]) ELSE l.v[f]])

\* the order in which a declaration object lists its names
Declared == <<"count", "v", "w">>

\* the names of env in the order of "for (const name in env)": deepest frame first
RECURSIVE Names(_, _)
Names(fsm, stack) ==
    IF Len(stack) = 0 THEN <<>>
    ELSE LET acc == Names(fsm, Tail(stack))
             cur == LetOf(fsm, Head(stack))
             listed(name) == \E k \in 1..Len(acc) : acc[k] = name
         IN  IF cur.k # "object" THEN acc
             ELSE acc \o SelectSeq(Declared, LAMBDA name : Has(cur, name) /\ ~listed(name))

\* JSON.parse(JSON.stringify(value)) throws a SyntaxError on such a value
Unparsable(value) == value.k \in {"undefined", "function"}

\* the names set() has written when the write back ends: those before the
\* first name whose value it cannot clone
Written(env, names) ==
    LET bad == {k \in 1..Len(names) : Unparsable(env.v[names[k]])}
        stop == IF bad = {} THEN Len(names) + 1 ELSE CHOOSE k \in bad : \A l \in bad : k <= l
    IN  Obj([name \in {names[k] : k \in 1..(stop - 1)} |-> env.v[name]])

\* the finally block of run: set(name, env[name]) for the names of env in order
WriteBack(c, r, names) ==
    LET set == Written(r.env, names)
        byRef(i) == {j \in 1..Len(c.stack) : Get(c.stack[j], "let") = Ref(i - 1)}
    IN  [thrown |-> r.thrown \/ \E name \in DOMAIN r.env.v : Unparsable(r.env.v[name]),
         result |-> r.ret,
         stack |-> [j \in 1..Len(c.stack) |->
                      IF Get(c.stack[j], "let").k \in {"undefined", "ref"} THEN c.stack[j]
                      ELSE Put(c.stack[j], "let", SetAll(c.fsm, c.stack, j, set))],
         fsm |-> [i \in 1..Len(c.fsm) |->
                    IF byRef(i) = {} THEN c.fsm[i]
                    ELSE SetField(c.fsm[i], "let",
                                  SetAll(c.fsm, c.stack, CHOOSE j \in byRef(i) : TRUE, set))]]


\* run(f): the result of the function, and the stack and FSM after the write back;
\* the write back stops at the first name whose value set() cannot clone
run(c, f) ==
    WriteBack(c, UserFunction(f, c.params, Env(c.fsm, c.stack)), Names(c.fsm, c.stack))

\* the text of state in a message
StateText(state) == IF state.k = "number" THEN ToString(state.v)
                    ELSE IF state.k = "string" THEN state.v ELSE ToString(state)

\* the index of fsm[state], or -1 when there is no such state: composer.js has
\* no check of the type of $resume.state, and states['0'] is states[0]
Index(variant, fsm, state) ==
    IF state.k = "number" THEN IF state.v \in 0..(Len(fsm) - 1) THEN state.v ELSE -1
    ELSE IF variant = "pointer" /\ state.k = "string"
            /\ \E n \in 0..(Len(fsm) - 1) : ToString(n) = state.v
    THEN CHOOSE n \in 0..(Len(fsm) - 1) : ToString(n) = state.v
    ELSE -1

\* a jump target: current + offset in part_000, the index itself in composer.js
Target(variant, current, d) == IF variant = "offset" THEN Num(current + d) ELSE Num(d)

\* the test of a choice state: params.value in part_000, params.value === true in composer.js
Chosen(variant, value) == IF variant = "offset" THEN Truthy(value) ELSE value = Bool(TRUE)

\* the frame a let state installs: a copy of json.let in part_000, json.let itself in composer.js
LetFrame(variant, current, json) ==
    IF variant = "offset" THEN Obj([let |-> JSONClone(json.let)])
    ELSE Obj([let |-> IF json.let.k = "object" THEN Ref(current) ELSE json.let])

\* the rejection for an empty stack or an unknown type: an internal error in
\* part_000, a bad request in composer.js
Refuse(variant, message) ==
    IF variant = "offset" THEN internalError(Str(message)) ELSE badRequest(message)

\* a continuation that drops the stack
ContinuationNoStack(c, json) ==
    JSONClone(Obj([action |-> Str(json.name), params |-> c.params,
                   state |-> Obj("$resume" :> Obj([state |-> c.state, stack |-> Arr(<<>>)]))]))

\* the object an action state returns, as the platform receives it
Continuation(c, json) ==
    JSONClone(Obj([action |-> Str(json.name), params |-> c.params,
                   state |-> Obj("$resume" :> Obj([state |-> c.state,
                                                    stack |-> Arr(Serialise(c.fsm, c.stack))]))]))

\* a pop that leaves params as it is
PoppedNothing(json, frame, params) == params

\* params after a pop state has removed frame
Popped(json, frame, params) ==
    IF "collect" \in DOMAIN json /\ json.collect
    THEN Obj([params |-> Get(frame, "params"), result |-> params])
    ELSE Get(frame, "params")

\* the final state: return params if params.error, { params } otherwise
final(c) ==
    IF ~Dereferenceable(c.params) THEN Reject(TypeError)
    ELSE IF Truthy(Get(c.params, "error")) THEN Resolve(JSONClone(c.params))
    ELSE Resolve(JSONClone(Obj([params |-> c.params])))

\* the function state
stepFunction(c, current, json) ==
    LET r == run(c, json.exec.exec)
        caught == IF r.thrown
                  THEN Obj([error |-> Str("An exception was caught at state "
                                          \o ToString(current) \o " (see log for details)")])
                  ELSE r.result
        result == IF caught.k = "function"
                  THEN Obj([error |-> Str("State " \o ToString(current)
                                          \o " evaluated to a function")])
                  ELSE caught
        after == Mutated(json.exec.exec, c.params)
        c1 == [c EXCEPT !.stack = r.stack, !.alias = -1,
                        !.fsm = IF c.alias < 0 THEN r.fsm
                                ELSE SetAt(r.fsm, c.alias + 1, "value", after)]
        value == IF result.k = "undefined" THEN after ELSE result
    IN  IF value.k = "undefined"
        THEN [c |-> c1, ret |-> Reject(Obj([message |-> Str("SyntaxError")]))]
        ELSE [c |-> inspect([c1 EXCEPT !.params = JSONClone(value)]), ret |-> NoReturn]

\* one iteration of the while (true) loop of invoke with state defined
stepState(variant, c0) ==
    LET current == Index(variant, c0.fsm, c0.state)
        json == c0.fsm[current + 1]
        c == [c0 EXCEPT !.state = IF "next" \in DOMAIN json
                                   THEN Target(variant, current, json.next) ELSE Undefined]
        go(c1) == [c |-> c1, ret |-> NoReturn]
        stop(ret) == [c |-> c, ret |-> ret]
        empty == "State " \o ToString(current) \o " attempted to pop from an empty stack"
    IN  CASE json.type = "choice" ->
               IF ~Dereferenceable(c.params) THEN stop(Reject(TypeError))
               ELSE go([c EXCEPT !.state =
                          IF Chosen(variant, Get(c.params, "value"))
                          THEN Target(variant, current, json.then)
                          ELSE Target(variant, current, json.else)])
          [] json.type = "try" ->
               go([c EXCEPT !.stack =
                     <<Obj([catch |-> Target(variant, current, json.catch)])>> \o c.stack])
          [] json.type = "let" ->
               go([c EXCEPT !.stack = <<LetFrame(variant, current, json)>> \o c.stack])
          [] json.type = "exit" ->
               IF Len(c.stack) = 0 THEN stop(Refuse(variant, empty))
               ELSE go([c EXCEPT !.stack = Tail(c.stack)])
          [] json.type = "push" ->
               IF "field" \in DOMAIN json /\ ~Dereferenceable(c.params)
               THEN stop(Reject(TypeError))
               ELSE go([c EXCEPT !.stack =
                          <<JSONClone(Obj([params |-> IF "field" \in DOMAIN json
                                                      THEN Get(c.params, json.field)
                                                      ELSE c.params]))>> \o c.stack])
          [] json.type = "pop" ->
               IF Len(c.stack) = 0 THEN stop(Refuse(variant, empty))
               ELSE go([c EXCEPT !.stack = Tail(c.stack), !.alias = -1,
                                 !.params = Popped(json, Head(c.stack), c.params)])
          [] json.type = "action" -> stop(Resolve(Continuation(c, json)))
          [] json.type = "literal" ->
               go(inspect([c EXCEPT !.params = IF variant = "offset" THEN JSONClone(json.value)
                                               ELSE json.value,
                                   !.alias = IF variant = "offset" THEN -1 ELSE current]))
          [] json.type = "function" -> stepFunction(c, current, json)
          [] json.type = "pass" -> go(inspect(c))
          [] OTHER -> stop(Refuse(variant, "State " \o ToString(current) \o " has an unknown type"))

\* one iteration of the while (true) loop of invoke
step(variant, c) ==
    IF c.state.k = "undefined" THEN [c |-> c, ret |-> final(c)]
    ELSE IF Index(variant, c.fsm, c.state) < 0
    THEN [c |-> c,
          ret |-> IF variant = "offset" THEN Reject(TypeError)
                  ELSE badRequest("State " \o StateText(c.state) \o " definition is missing")]
    ELSE stepState(variant, c)

\* invoke(params) up to its loop: the initial state and stack, or those of $resume
invoke(variant, fsm, params) ==
    LET fresh == [fsm |-> fsm, state |-> Num(0), stack |-> <<>>, params |-> params, alias |-> -1]
        resume == Get(params, "$resume")
        state == Get(resume, "state")
        stack == Get(resume, "stack")
        stop(ret) == [c |-> fresh, ret |-> ret]
    IN  IF resume.k = "undefined" THEN [c |-> fresh, ret |-> NoReturn]
        ELSE IF ~isObject(resume)
        THEN stop(badRequest("The type of optional $resume parameter must be object"))
        ELSE IF variant = "offset" /\ state.k \notin {"undefined", "number"}
        THEN stop(badRequest("The type of optional $resume.state parameter must be number"))
        ELSE IF stack.k # "array"
        THEN stop(badRequest("The type of $resume.stack must be an array"))
        ELSE [c |-> inspect([fsm |-> fsm, state |-> state, stack |-> stack.v,
                             params |-> Delete(params, "$resume"), alias |-> -1]),
              ret |-> NoReturn]

(***************************************************************************)
(* The compositions the model runs, the inputs of a first invocation, the  *)
(* results the platform delivers for an action, and the $resume values of  *)
(* an invocation that does not continue an emitted continuation.           *)
(***************************************************************************)
MaxRetry == 2
MaxRepeat == 2
MaxActivations == 2

F(code) == function(code, NoOptions)
A(name) == action(name, NoOptions)
L(value) == literal(value, NoOptions)

\* a try that completes without error
TryOk == try(F(ok), F(ok), NoOptions)

\* bodies: succeeding, failing, suspending, and pushing frames before they fail
Bodies ==
    { F(ok), F(fail), F(throw), A("a"), TryOk, seq(<<A("a"), F(inc)>>),
      L(Obj([error |-> Num(0)])), retainPlain(F(fail), NoOptions),
      seq(<<TryOk, F(fail)>>), let(Obj([v |-> Num(1)]), <<A("a")>>),
      retainPlain(F(failMore), NoOptions) }

Handlers == { F(ok), F(noop), F(fail), A("h") }

LoopBodies == { F(ok), F(inc), A("a"), TryOk, F(noop) }

RetryBodies == { F(fail), F(ok), A("a"), TryOk, F(throw) }

FieldBodies == { F(ok), F(inc), A("a"), TryOk, F(fail) }

CatchBodies == { F(ok), F(fail), F(throw), A("a"), TryOk, L(Obj([error |-> Num(0)])) }

\* tests of an if: true, false, truthy values that are not true, no value, the
\* result of an action, and a test in which a try completes
Tests == { F(yes), F(no), F(one), F(text), F(ok), A("t"), try(F(yes), F(ok), NoOptions) }

WhileBodies == { F(inc), F(noop), A("a"), TryOk }

\* bodies of the inner let of a scope program, which declares v again
ScopeBodies ==
    { <<F(bump), F(bumpW)>>, <<try(F(bumpThrow), F(bump), NoOptions)>>, <<A("a"), F(bump)>>,
      <<retainPlain(F(bump), NoOptions), F(bump)>>, <<try(F(unset), F(bumpW), NoOptions)>> }

Outer == Obj([v |-> Num(1), w |-> Num(5)])
Inner == Obj([v |-> Num(2)])

NoSave(nosave) == IF nosave THEN [nosave |-> TRUE] ELSE NoOptions

\* a program names how its composition is built; wrapped programs run inside
\* let({ v: 1 }, ...), so that their first state is entered with a frame on the stack
Programs ==
    [shape : {"try"}, wrapped : {TRUE}, body : Bodies, handler : Handlers]
    \cup [shape : {"finally"}, wrapped : {TRUE}, body : Bodies, finalizer : Handlers]
    \cup [shape : {"retain"}, wrapped : BOOLEAN, body : Bodies]
    \cup [shape : {"retry"}, wrapped : {FALSE}, count : 0..MaxRetry, body : RetryBodies]
    \cup [shape : {"repeat"}, wrapped : {FALSE}, count : (-1)..MaxRepeat, body : LoopBodies]
    \cup [shape : {"sequence"}, wrapped : {FALSE},
          body : { seq(<<>>), A("a"), seq(<<A("a"), A("b")>>), seq(<<A("a"), F(inc), A("b")>>),
                   L(Obj([error |-> Bool(FALSE)])), L(Obj([error |-> Str("")])),
                   L(Obj([error |-> Null])), L(Str("s")), L(Obj([type |-> Str("t")])),
                   repeat(2, <<repeat(1, <<A("a")>>)>>),
                   seq(<<L(Obj([x |-> Num(1)])), F(mutate)>>) }]
    \cup [shape : {"field"}, wrapped : {FALSE}, field : {"x", "y"}, body : FieldBodies]
    \cup [shape : {"catch"}, wrapped : {TRUE}, body : CatchBodies]
    \cup [shape : {"if"}, wrapped : {TRUE}, test : Tests, consequent : {F(ok), A("c")},
          alternate : {F(inc)}, nosave : BOOLEAN]
    \cup [shape : {"while"}, wrapped : {FALSE}, count : 0..MaxRepeat, body : WhileBodies,
          nosave : BOOLEAN]
    \cup [shape : {"scope"}, wrapped : {FALSE}, body : ScopeBodies]
    \cup [shape : {"nested"}, wrapped : {FALSE}, outer : 0..MaxRepeat, inner : 0..MaxRepeat,
          body : {F(inc), A("a")}]
    \cup [shape : {"rethrow"}, wrapped : {FALSE}, enclosed : BOOLEAN, body : {F(fail), A("a")},
          handler : {F(noop), seq(<<>>), F(ok), A("h")}]

Unwrapped(prog) ==
    CASE prog.shape = "try" -> try(prog.body, prog.handler, NoOptions)
      [] prog.shape = "finally" -> finally(prog.body, prog.finalizer, NoOptions)
      [] prog.shape = "retain" -> retain(prog.body, NoOptions)
      [] prog.shape = "retry" -> retry(prog.count, <<prog.body>>)
      [] prog.shape = "repeat" -> repeat(prog.count, <<prog.body>>)
      [] prog.shape = "sequence" -> prog.body
      [] prog.shape = "field" -> retain(prog.body, [field |-> prog.field])
      [] prog.shape = "catch" -> retain(prog.body, [catch |-> TRUE])
      [] prog.shape = "if" ->
           if(prog.test, prog.consequent, prog.alternate, NoSave(prog.nosave))
      [] prog.shape = "while" ->
           let(Obj([count |-> Num(prog.count)]),
               <<while(F(repeat_1), prog.body, NoSave(prog.nosave))>>)
      [] prog.shape = "scope" -> let(Outer, <<let(Inner, prog.body), F(bump)>>)
      [] prog.shape = "nested" -> repeat(prog.outer, <<repeat(prog.inner, <<prog.body>>)>>)
      [] prog.shape = "rethrow" ->
           IF prog.enclosed
           THEN try(seq(<<try(prog.body, prog.handler, NoOptions), F(inc)>>), F(ok), NoOptions)
           ELSE seq(<<try(prog.body, prog.handler, NoOptions), F(inc)>>)

Wrapper == Obj([v |-> Num(1)])

Build(prog) ==
    IF prog.wrapped THEN let(Wrapper, <<Unwrapped(prog), F(noop)>>) ELSE Unwrapped(prog)

Variants == {"offset", "pointer"}

\* the FSM a deployed action holds after its code is loaded
Load(variant, composition) ==
    IF variant = "offset" THEN conductor(composition) ELSE init(composition)

Inputs == { Obj([x |-> Num(1)]) }

ActionResults == { Obj([value |-> Bool(TRUE)]), Obj([error |-> Str("r")]), Obj([error |-> Num(0)]) }

\* $resume values of a request the conductor did not emit
CatchFrame(n) == Obj([catch |-> Num(n)])
ParamsFrame == Obj([params |-> Obj([x |-> Num(2)])])
Resumption(state, stack) == Obj([state |-> state, stack |-> stack])
BadResumes ==
    { Str("resume"), Null, Arr(<<>>), Num(1),
      Obj([state |-> Num(0)]), Resumption(Num(0), Str("stack")), Resumption(Num(0), EmptyObj),
      Resumption(Str("0"), Arr(<<>>)), Resumption(Null, Arr(<<>>)), Resumption(Bool(TRUE), Arr(<<>>)),
      Resumption(Str("0"), Arr(<<CatchFrame(0)>>)) }
GoodResumes ==
    { Resumption(st, Arr(sk)) :
        st \in {Undefined, Num(0)},
        sk \in { <<>>, <<ParamsFrame>>, <<ParamsFrame, CatchFrame(0), CatchFrame(1)>> } }
ForgedParams == { Obj([x |-> Num(1)]), Obj([error |-> Str("r")]) }

(***************************************************************************)
(* The state machine.  The platform calls main(params) for a first         *)
(* invocation (Start), to continue with the result of the action the       *)
(* conductor asked for (Resume), or with any other params (Forge); each    *)
(* call runs invoke up to its loop, and Step is one iteration of the loop. *)
(***************************************************************************)
VARIABLES
    variant,     \* which conductor runs
    prog,        \* the program whose composition was deployed
    fsm,         \* the FSM the deployed action holds
    state,       \* invoke: state
    stack,       \* invoke: stack
    params,      \* invoke: params
    alias,       \* the literal state whose value params is, or -1
    pc,          \* "idle": no call of main in progress; "loop": in the loop of invoke
    out,         \* what the last call of main returned
    request,     \* the params the last call of main was given
    activation,  \* the number of first or forged invocations so far
    invocation,  \* the number of calls of main in this activation
    forged,      \* this activation runs on a $resume the conductor did not emit
    hist,        \* the FSM states executed in this activation, with stack and params at entry
    direct       \* the uninterrupted run of this activation

vars == <<variant, prog, fsm, state, stack, params, alias, pc, out, request, activation, invocation, forged,
          hist, direct>>

\* the configuration of invoke
Config == [fsm |-> fsm, state |-> state, stack |-> stack, params |-> params, alias |-> alias]

IsContinuation(ret) == ret.kind = "resolve" /\ Has(ret.value, "action")

Init ==
    /\ variant \in Variants
    /\ prog \in Programs
    /\ fsm = Load(variant, Build(prog))
    /\ state = Undefined
    /\ stack = <<>>
    /\ params = Undefined
    /\ pc = "idle"
    /\ out = NoReturn
    /\ request = Undefined
    /\ activation = 0
    /\ invocation = 0
    /\ forged = FALSE
    /\ hist = <<>>
    /\ alias = -1
    /\ direct = [c |-> [fsm |-> fsm, state |-> Undefined, stack |-> <<>>, params |-> Undefined,
                       alias |-> -1],
                 ret |-> NoReturn]

\* main(p): invoke up to the loop
Call(p) ==
    LET r == invoke(variant, fsm, p)
    IN  /\ fsm' = r.c.fsm
        /\ state' = r.c.state
        /\ stack' = r.c.stack
        /\ params' = r.c.params
        /\ alias' = r.c.alias
        /\ out' = r.ret
        /\ request' = p
        /\ pc' = IF r.ret = NoReturn THEN "loop" ELSE "idle"

\* the uninterrupted run executes the state the conductor executes, except
\* that it waits at an action state for the result
DirectStep ==
    IF direct.ret # NoReturn THEN direct
    ELSE IF direct.c.state.k = "number" /\ direct.c.state.v \in 0..(Len(direct.c.fsm) - 1)
            /\ direct.c.fsm[direct.c.state.v + 1].type = "action"
    THEN direct
    ELSE step(variant, direct.c)

\* the uninterrupted run at an action state: params becomes the result, then inspect
DirectAction(result) ==
    IF direct.ret # NoReturn \/ direct.c.state.k # "number"
       \/ direct.c.state.v \notin 0..(Len(direct.c.fsm) - 1)
    THEN direct
    ELSE LET json == direct.c.fsm[direct.c.state.v + 1]
             next == IF "next" \in DOMAIN json
                     THEN Target(variant, direct.c.state.v, json.next) ELSE Undefined
         IN  [c |-> inspect([direct.c EXCEPT !.state = next, !.params = result, !.alias = -1]),
              ret |-> NoReturn]

\* a first invocation
Start(p) ==
    /\ pc = "idle"
    /\ ~IsContinuation(out)
    /\ activation < MaxActivations
    /\ Call(p)
    /\ activation' = activation + 1
    /\ invocation' = 1
    /\ forged' = FALSE
    /\ hist' = <<>>
    /\ direct' = [c |-> [fsm |-> fsm, state |-> Num(0), stack |-> <<>>, params |-> p, alias |-> -1],
                  ret |-> NoReturn]
    /\ UNCHANGED <<variant, prog>>

\* the platform continues with the result of the action and the state the conductor returned
Resume(result) ==
    /\ pc = "idle"
    /\ IsContinuation(out)
    /\ Call(Assign(result, Get(out.value, "state")))
    /\ invocation' = invocation + 1
    /\ direct' = DirectAction(result)
    /\ UNCHANGED <<variant, prog, activation, forged, hist>>

\* a call of main with a $resume the conductor did not emit, on a newly loaded action
Forge(p, resume) ==
    /\ pc = "idle"
    /\ activation = 0
    /\ Call(Put(p, "$resume", resume))
    /\ activation' = activation + 1
    /\ invocation' = 1
    /\ forged' = TRUE
    /\ hist' = <<>>
    /\ UNCHANGED <<variant, prog, direct>>

\* state is the index of a state of the FSM
Executes == Index(variant, fsm, state) >= 0

\* one iteration of the loop of invoke
Step ==
    /\ pc = "loop"
    /\ LET r == step(variant, Config)
       IN  /\ fsm' = r.c.fsm
           /\ state' = r.c.state
           /\ stack' = r.c.stack
           /\ params' = r.c.params
           /\ alias' = r.c.alias
           /\ out' = r.ret
           /\ pc' = IF r.ret = NoReturn THEN "loop" ELSE "idle"
    /\ hist' = IF ~Executes THEN hist
               ELSE Append(hist, [invocation |-> invocation,
                                  state |-> Num(Index(variant, fsm, state)),
                                  stack |-> Serialise(fsm, stack), params |-> params])
    /\ direct' = IF forged THEN direct ELSE DirectStep
    /\ UNCHANGED <<variant, prog, request, activation, invocation, forged>>

Next ==
    \/ \E p \in Inputs : Start(p)
    \/ \E result \in ActionResults : Resume(result)
    \/ \E p \in ForgedParams, resume \in BadResumes \cup GoodResumes : Forge(p, resume)
    \/ Step

Spec == Init /\ [][Next]_vars

(***************************************************************************)
(* Properties.                                                             *)
(***************************************************************************)
\* the activation has ended: main returned a final result or rejected
Done == pc = "idle" /\ out # NoReturn /\ ~IsContinuation(out)

\* the state record of the i-th executed state, and where control goes by default
Executed(i) == fsm[hist[i].state.v + 1]
Successor(i) ==
    IF "next" \notin DOMAIN Executed(i) THEN Undefined
    ELSE IF variant = "offset" THEN Num(hist[i].state.v + Executed(i).next)
    ELSE Num(Executed(i).next)

\* an object with the fields of f that are defined
Defined(f) == Obj([x \in {y \in DOMAIN f : f[y].k # "undefined"} |-> f[x]])

\* the continuation the i-th executed state, an action state, must return
ExpectedContinuation(i) ==
    Defined([action |-> Str(Executed(i).name), params |-> hist[i].params,
             state |-> Obj("$resume" :> Defined([state |-> Successor(i),
                                                 stack |-> Arr(hist[i].stack)]))])

\* the invocation in which the state after the i-th executed state runs
FollowingInvocation(i) == IF i = Len(hist) THEN invocation ELSE hist[i + 1].invocation

\* C1: an invocation runs states one after another up to the first action
\* state and returns there {action, params, state: {$resume: {state, stack}}}
\* with the current params and stack and the index of the action's successor
\* (absent without next); only an action state ends an invocation with a
\* continuation, and the state after an action runs in a later invocation.
C1_SuspendAtAction ==
    /\ \A i \in 1..Len(hist) :
         IF Executed(i).type = "action"
         THEN IF i = Len(hist) /\ invocation = hist[i].invocation
              THEN pc = "idle" /\ out = Resolve(ExpectedContinuation(i))
              ELSE FollowingInvocation(i) = hist[i].invocation + 1
         ELSE FollowingInvocation(i) = hist[i].invocation
    /\ IsContinuation(out) =>
         /\ pc = "idle"
         /\ Len(hist) > 0
         /\ Executed(Len(hist)).type = "action"
         /\ hist[Len(hist)].invocation = invocation

\* a second action of an activation returns a continuation with frames on the stack
C1_Witness ==
    /\ IsContinuation(out)
    /\ invocation >= 2
    /\ Len(Get(Get(Get(out.value, "state"), "$resume"), "stack").v) > 0
    /\ Len(hist) > 3

\* C2: the run that suspends at each action and is resumed with the action's
\* result and the emitted $resume has, at every state, the state, stack and
\* params of the uninterrupted run, and returns what it returns.
C2_ResumeTransparent ==
    (~forged /\ activation >= 1) =>
        /\ pc = "loop" =>
             /\ direct.ret = NoReturn
             /\ direct.c.state = state
             /\ Serialise(direct.c.fsm, direct.c.stack) = Serialise(fsm, stack)
             /\ direct.c.params = params
        /\ Done => direct.ret = out

\* C2 for the conductor of part_000 alone
C2_OffsetOnly == variant = "offset" => C2_ResumeTransparent

\* the $resume of the request of this invocation, and what it carries
Resumed == Get(request, "$resume")
Delivered == Get(request, "error")
Restored == Get(Resumed, "stack").v

\* a $resume invoke accepts
WellShaped ==
    /\ Resumed.k = "object"
    /\ Get(Resumed, "stack").k = "array"
    /\ variant = "offset" => Get(Resumed, "state").k \in {"undefined", "number"}

\* the positions of the catch frames of the restored stack, and the first of them
Catches == {j \in 1..Len(Restored) : Get(Restored[j], "catch").k = "number"}
FirstCatch == CHOOSE j \in Catches : \A i \in Catches : j <= i

\* the states executed in this invocation, as positions of hist
Ran == {i \in 1..Len(hist) : hist[i].invocation = invocation}
FirstRan == CHOOSE i \in Ran : \A j \in Ran : i <= j

\* C3: a resumed invocation whose delivered params has a defined error executes
\* no state before params is {error}, the restored stack has lost its frames
\* up to and including the first catch frame, and state is that frame's catch
\* (the invocation ends there only if the FSM has no such state); with no catch
\* frame it executes no state and returns {error} as terminal
\* error.
C3_ResumeError ==
    (Resumed # Undefined /\ WellShaped /\ Delivered # Undefined) =>
        IF Catches # {}
        THEN /\ (Ran = {} /\ pc = "idle") =>
                  Get(Restored[FirstCatch], "catch").v \notin 0..(Len(fsm) - 1)
             /\ (Ran = {} /\ pc = "loop") =>
                  /\ state = Get(Restored[FirstCatch], "catch")
                  /\ Serialise(fsm, stack) = SubSeq(Restored, FirstCatch + 1, Len(Restored))
                  /\ params = Obj([error |-> Delivered])
             /\ Ran # {} =>
                  /\ hist[FirstRan].state = Get(Restored[FirstCatch], "catch")
                  /\ hist[FirstRan].stack = SubSeq(Restored, FirstCatch + 1, Len(Restored))
                  /\ hist[FirstRan].params = Obj([error |-> Delivered])
        ELSE /\ Ran = {}
             /\ pc = "loop" => state = Undefined /\ params = Obj([error |-> Delivered])
             /\ pc = "idle" => out = Resolve(Obj([error |-> Delivered]))

\* C3 for delivered errors that are truthy
C3_TruthyError == Truthy(Delivered) => C3_ResumeError

\* C4: at the terminal state the conductor returns params itself when
\* params.error is defined, whatever its value, and {params: params} otherwise.
C4_TerminalShape ==
    (Done /\ out.kind = "resolve") =>
        out.value = JSONClone(IF Get(params, "error") # Undefined THEN params
                              ELSE Obj([params |-> params]))

\* C4 for errors that are truthy
C4_TruthyError == Truthy(Get(params, "error")) \/ Get(params, "error") = Undefined => C4_TerminalShape

\* a $resume that is present and is not a plain object, or whose stack is not an
\* array, or (part_000) whose state is neither absent nor a number
BadShape ==
    /\ Resumed # Undefined
    /\ \/ Resumed.k # "object"
       \/ Get(Resumed, "stack").k # "array"
       \/ variant = "offset" /\ Get(Resumed, "state").k \notin {"undefined", "number"}

\* C5: an invocation with a badly shaped $resume is rejected with
\* {code: 400, error: message}; it executes no state and returns no
\* continuation and no result.
C5_BadResume ==
    BadShape =>
        /\ pc = "idle"
        /\ out.kind = "reject"
        /\ Get(out.value, "code") = Num(400)
        /\ Get(out.value, "error").k = "string"
        /\ DOMAIN out.value.v = {"code", "error"}
        /\ hist = <<>>

\* part_000 has rejected a $resume whose state is a string
C5_Witness ==
    /\ variant = "offset"
    /\ Resumed.k = "object"
    /\ Get(Resumed, "stack").k = "array"
    /\ Get(Resumed, "state").k = "string"
    /\ out.kind = "reject"

\* the positions of hist at which state n was executed
At(n) == {i \in 1..Len(hist) : hist[i].state.v = n}

\* params and stack after the i-th executed state, which is not an action
ParamsAfter(i) == IF i < Len(hist) THEN hist[i + 1].params ELSE params
StackAfter(i) == IF i < Len(hist) THEN hist[i + 1].stack ELSE Serialise(fsm, stack)

\* the state that runs after the i-th executed state, -1 for the terminal state;
\* the i-th executed state has ended unless it is an action awaiting its result
IndexAfter(i) ==
    IF i < Len(hist) THEN hist[i + 1].state.v ELSE IF state.k = "number" THEN state.v ELSE -1
Ended(i) == i < Len(hist) \/ ~IsContinuation(out)

\* the number of states a composition compiles to
Size(composition) == Len(compile(composition, ""))

\* a run of try(body, handler) inside let({ v: 1 }, ...): state 0 is the let,
\* state 1 the try, the body starts at 2, the handler at TryHandler, and the
\* pass state that ends the try is TryPass
TryRun == prog.shape = "try" /\ ~forged
TryHandler == 2 + Size(prog.body)
TryPass == TryHandler + Size(prog.handler)
InTryBody(i) == hist[i].state.v \in 2..(TryHandler - 1)
InTryHandler(i) == hist[i].state.v \in TryHandler..(TryPass - 1)
TryEntry == CHOOSE i \in At(1) : TRUE

\* C6: in try(body, handler) the state executed when the body is left with an
\* error is the first state of the handler; the handler is entered
\* at most once, only from the body, with params {error: e} and the stack of
\* the entry to the try; when the handler ends without error the pass state and
\* then the state after the try run with the handler's result and that stack.
C6_TryHandler ==
    TryRun =>
        /\ Cardinality(At(TryHandler)) <= 1
        /\ \A i \in At(TryHandler) :
               /\ i > 1 /\ InTryBody(i - 1)
               /\ Get(hist[i].params, "error") # Undefined
               /\ hist[i].params = Obj([error |-> Get(hist[i].params, "error")])
               /\ hist[i].stack = hist[TryEntry].stack
               /\ hist[i].invocation = invocation /\ Ran = {i} /\ Executed(i - 1).type = "action" =>
                      Get(hist[i].params, "error") = Delivered
               /\ Executed(i - 1).type = "function" /\ Executed(i - 1).exec.exec = fail =>
                      Get(hist[i].params, "error") = Str("e")
               /\ Executed(i - 1).type = "literal" =>
                      Get(hist[i].params, "error") = Get(Executed(i - 1).value, "error")
        /\ \A i \in 1..Len(hist) :
               (InTryBody(i) /\ Ended(i) /\ IndexAfter(i) \notin 2..(TryHandler - 1)) =>
                   IF Get(ParamsAfter(i), "error") # Undefined
                   THEN IndexAfter(i) = TryHandler
                   ELSE IndexAfter(i) = TryPass
        /\ \A i \in 1..Len(hist) :
               (InTryHandler(i) /\ Ended(i) /\ IndexAfter(i) \notin TryHandler..(TryPass - 1)
                     /\ Get(ParamsAfter(i), "error") = Undefined) =>
                   /\ IndexAfter(i) = TryPass
                   /\ StackAfter(i) = hist[TryEntry].stack
                   /\ i + 1 <= Len(hist) =>
                        /\ IndexAfter(i + 1) = TryPass + 1
                        /\ ParamsAfter(i + 1) = hist[i + 1].params
                        /\ StackAfter(i + 1) = hist[TryEntry].stack

\* the body, an action under a let of its own, returned an error; the handler
\* ran once on the stack of the entry to the try, and the state after the try ran
C6_Witness ==
    /\ TryRun
    /\ At(TryPass + 1) # {}
    /\ \E i \in At(TryHandler) :
          /\ Executed(i - 1).type = "action"
          /\ Len(hist[i - 1].stack) > Len(hist[TryEntry].stack) + 1
          /\ Len(hist[i].stack) = 1

\* a run of finally(body, finalizer) inside let({ v: 1 }, ...): state 1 is the
\* try, the body starts at 2, FinallyExit is the exit state and the finalizer
\* starts after it
FinallyRun == prog.shape = "finally" /\ ~forged
FinallyExit == 2 + Size(prog.body)
Finalizer == FinallyExit + 1
InFinallyBody(i) == hist[i].state.v \in 2..(FinallyExit - 1)

\* C7: in finally(body, finalizer) the finalizer is entered exactly once by the
\* time the run ends, from the exit state with the body's result or from the
\* body with {error: e}, and with the stack of the entry to the finally.
C7_FinallyOnce ==
    FinallyRun =>
        /\ Cardinality(At(Finalizer)) <= 1
        /\ Done => Cardinality(At(Finalizer)) = 1
        /\ \A i \in At(Finalizer) :
               /\ hist[i].stack = hist[TryEntry].stack
               /\ IF hist[i - 1].state.v = FinallyExit
                  THEN /\ hist[i].params = hist[i - 1].params
                       /\ hist[i - 1].stack = <<Obj([catch |-> Num(Finalizer)])>> \o hist[TryEntry].stack
                  ELSE /\ InFinallyBody(i - 1)
                       /\ Get(hist[i].params, "error") # Undefined
                       /\ hist[i].params = Obj([error |-> Get(hist[i].params, "error")])

\* C7 for the bodies in which no try completes
C7_NoTryInBody == (FinallyRun /\ prog.body # TryOk) => C7_FinallyOnce

\* a run of retry(count, body): state 0 is the let; the first attempt is push,
\* try, body, exit, retain_1, pop, retain_2; the while is push, retry_1, choice,
\* pop, try, retry_2, exit, the second copy of the attempt, pop, pass; then
\* retry_3 and the exit of the let
RetryRun == prog.shape = "retry" /\ ~forged
FirstAttempt == 3
NextAttempt == 16 + Size(prog.body)
Attempts == At(FirstAttempt) \cup At(NextAttempt)
\* the executions of retain_1, the finalizer of an attempt, which starts with
\* the result of the body
AttemptEnds ==
    At(FirstAttempt + Size(prog.body) + 1) \cup At(NextAttempt + Size(prog.body) + 1)
Failed(i) == Get(hist[i].params, "error") # Undefined
LastOf(S) == CHOOSE i \in S : \A j \in S : j <= i

\* C8: when retry(n, body) has ended, if every attempt ended with an error the
\* body was executed n + 1 times and the run returned the last error as
\* terminal error; if the first attempt succeeded the body was executed once
\* and the run returned {params: the body's result}.
C8_RetryAttempts ==
    (RetryRun /\ Done) =>
        /\ Cardinality(AttemptEnds) = Cardinality(Attempts)
        /\ (\A i \in AttemptEnds : Failed(i)) =>
              /\ Cardinality(Attempts) = prog.count + 1
              /\ out = Resolve(hist[LastOf(AttemptEnds)].params)
        /\ (\A i \in At(FirstAttempt + Size(prog.body) + 1) : ~Failed(i)) =>
              /\ Cardinality(Attempts) = 1
              /\ out = Resolve(Obj([params |->
                          hist[LastOf(At(FirstAttempt + Size(prog.body) + 1))].params]))

\* C8 for part_000 and errors that are truthy
C8_OffsetTruthy ==
    (RetryRun /\ variant = "offset" /\ \A i \in AttemptEnds : Failed(i) => Truthy(Get(hist[i].params, "error")))
        => C8_RetryAttempts

\* a run of repeat(count, body): state 0 is the let; the while is push,
\* repeat_1, choice, pop, the body from state 5, pop, pass; then the exit of
\* the let
RepeatRun == prog.shape = "repeat" /\ ~forged
RepeatBody == 5
RepeatExit == 7 + Size(prog.body)
Times == IF prog.count > 0 THEN prog.count ELSE 0
ErrorFree ==
    /\ \A i \in 1..Len(hist) : Get(hist[i].params, "error") = Undefined
    /\ Get(params, "error") = Undefined

\* C9: in a run of repeat(n, body) without error the body is never executed
\* more than max(n, 0) times and exactly that many times when the run has
\* ended; for n >= 0 the exit state finds the let frame in front with count -1,
\* and it leaves the stack as it was before the repeat.
C9_RepeatCount ==
    (RepeatRun /\ ErrorFree) =>
        /\ Cardinality(At(RepeatBody)) <= Times
        /\ Done => /\ out.kind = "resolve"
                   /\ Cardinality(At(RepeatBody)) = Times
                   /\ At(RepeatExit) # {}
        /\ \A i \in At(RepeatExit) :
               /\ Len(hist[i].stack) = 1
               /\ prog.count >= 0 => Get(hist[i].stack[1], "let") = Obj([count |-> Num(-1)])
               /\ StackAfter(i) = <<>>

\* C9 for part_000 and a body in which no try completes
C9_OffsetNoTry == (RepeatRun /\ variant = "offset" /\ prog.body # TryOk) => C9_RepeatCount

\* a run of retain(body), alone or inside let({ v: 1 }, ...): the push state,
\* the body, the pop state
RetainRun == prog.shape = "retain" /\ ~forged
RetainPush == IF prog.wrapped THEN 1 ELSE 0
RetainPop == RetainPush + Size(prog.body) + 1
InRetainBody(i) == hist[i].state.v \in (RetainPush + 1)..(RetainPop - 1)
PushEntry == CHOOSE i \in At(RetainPush) : TRUE

\* C10: in retain(body) the pop state, which runs when the body has completed
\* without error with result R, leaves params {params: P, result: R} for the
\* params P of the entry, and the stack of the entry; when the body is left with
\* an error the pop state does not run, the frame of the push is gone and params
\* is {error: e}.
C10_Retain ==
    RetainRun =>
        /\ \A i \in At(RetainPop) :
               /\ ParamsAfter(i) = Obj([params |-> hist[PushEntry].params, result |-> hist[i].params])
               /\ StackAfter(i) = hist[PushEntry].stack
        /\ \A i \in 1..Len(hist) :
               (InRetainBody(i) /\ Ended(i) /\ Get(ParamsAfter(i), "error") # Undefined
                     /\ IndexAfter(i) \notin (RetainPush + 1)..(RetainPop - 1)) =>
                   /\ IndexAfter(i) # RetainPop
                   /\ ParamsAfter(i) = Obj([error |-> Get(ParamsAfter(i), "error")])
                   /\ \A j \in 1..Len(StackAfter(i)) : ~Has(StackAfter(i)[j], "params")
        /\ Done => At(RetainPop) # {} \/ Get(params, "error") # Undefined

\* C10 for the bodies in which no try completes
C10_NoTryInBody ==
    (RetainRun /\ prog.body \notin {TryOk, seq(<<TryOk, F(fail)>>)}) => C10_Retain

\* a run of retain(body, { field }): the push state 0, the body, the pop state
FieldRun == prog.shape = "field" /\ ~forged
FieldPop == Size(prog.body) + 1

\* C11: in retain(body, {field: f}) the body starts with the params P of the
\* entry, and the pop state, which runs when the body has completed without
\* error with result R, leaves params {params: P[f], result: R}.
C11_RetainField ==
    FieldRun =>
        /\ \A i \in At(1) : hist[i].params = hist[1].params
        /\ \A i \in At(FieldPop) :
               ParamsAfter(i) = Obj([params |-> Get(hist[1].params, prog.field),
                                     result |-> hist[i].params])

\* C11 for the bodies in which no try completes
C11_NoTryInBody == (FieldRun /\ prog.body # TryOk) => C11_RetainField

\* a run of retain(body, { catch: true }) inside let({ v: 1 }, ...): push at
\* state 1, try, the body from state 3, exit, retain_1, pop, retain_2, and then
\* the state after the retain
CatchRun == prog.shape = "catch" /\ ~forged
CatchEnd == 4 + Size(prog.body)
CatchAfter == CatchEnd + 3

\* C12: in retain(body, {catch: true}) the function retain_1 starts with the
\* body's result R, which is {error: e} when the body raised e; after retain_2
\* params is {params: P, result: R} for the params P of the entry, the stack is
\* that of the entry and the state after the retain runs; a run that has ended
\* has run that state.
C12_RetainCatch ==
    CatchRun =>
        /\ \A i \in At(CatchEnd) :
               Get(hist[i].params, "error") # Undefined =>
                   hist[i].params = Obj([error |-> Get(hist[i].params, "error")])
        /\ \A i \in At(CatchAfter - 1) :
               Ended(i) =>
                   /\ At(CatchEnd) # {}
                   /\ ParamsAfter(i) = Obj([params |-> hist[LastOf(At(1))].params,
                                            result |-> hist[LastOf(At(CatchEnd))].params])
                   /\ StackAfter(i) = hist[LastOf(At(1))].stack
                   /\ IndexAfter(i) = CatchAfter
        /\ Done => At(CatchAfter) # {}

\* C12 for the bodies in which no try completes
C12_NoTryInBody == (CatchRun /\ prog.body # TryOk) => C12_RetainCatch

\* a run of if(test, consequent, alternate) inside let({ v: 1 }, ...): the if
\* starts at state 1 with a push unless nosave, then the test, the choice, the
\* consequent (after a pop unless nosave), the alternate (likewise), a pass,
\* and then the state after the if
IfRun == prog.shape = "if" /\ ~forged
Saved == IF prog.nosave THEN 0 ELSE 1
IfChoice == 1 + Saved + Size(prog.test)
Consequent == IfChoice + 1 + Saved
Alternate == Consequent + Size(prog.consequent) + Saved
IfPass == Alternate + Size(prog.alternate)

\* C13: the choice of an if goes to the consequent when the value of the
\* test's result is truthy and to the alternate otherwise; the two are never
\* both executed; the branch starts with the params of the entry, on the stack
\* of the entry, or under nosave with the test's result; a branch
\* that ends without error is followed by the pass state and the state after
\* the if.
C13_IfBranch ==
    IfRun =>
        /\ At(Consequent) = {} \/ At(Alternate) = {}
        /\ \A i \in At(IfChoice) :
               Ended(i) =>
                   IndexAfter(i) = IF Truthy(Get(hist[i].params, "value"))
                                   THEN Consequent - Saved ELSE Alternate - Saved
        /\ \A i \in At(Consequent) \cup At(Alternate) :
               /\ ~prog.nosave => hist[i].stack = hist[LastOf(At(1))].stack
               /\ hist[i].params = IF prog.nosave THEN hist[LastOf(At(IfChoice))].params
                                   ELSE hist[LastOf(At(1))].params
        /\ \A i \in 1..Len(hist) :
               (/\ hist[i].state.v \in Consequent..(IfPass - 1)
                /\ Ended(i)
                /\ Get(ParamsAfter(i), "error") = Undefined
                /\ IndexAfter(i) \notin Consequent..(IfPass - 1)) =>
                   /\ IndexAfter(i) = IfPass
                   /\ i < Len(hist) => IndexAfter(i + 1) = IfPass + 1

\* C13 for part_000 and a test in which no try completes
C13_OffsetNoTry ==
    (IfRun /\ variant = "offset" /\ prog.test # try(F(yes), F(ok), NoOptions)) => C13_IfBranch

\* a run of let({ count }, while(repeat_1, body)): after the let at state 0 the
\* while starts with a push unless nosave, then the test, the choice, and the
\* body (after a pop unless nosave)
WhileRun == prog.shape = "while" /\ ~forged
WhileTest == 1 + Saved
WhileBody == WhileTest + 2 + Saved
InWhileBody(i) == hist[i].state.v \in WhileBody..(WhileBody + Size(prog.body) - 1)
\* the evaluations of the test and the executions of the body before position i
TopsBefore(i) == {j \in At(WhileTest) : j < i}
BodiesBefore(i) == {j \in At(WhileBody) : j < i}

ScopeRun == prog.shape = "scope" /\ ~forged
ScopeLast == 3 + Size(seq(prog.body))
\* the frames of stk that declare name, and the front-most of them
Declaring(stk, name) == {j \in 1..Len(stk) : Has(Get(stk[j], "let"), name)}
FrontMost(stk, name) == CHOOSE j \in Declaring(stk, name) : \A k \in Declaring(stk, name) : j <= k
Bound(stk, name) == Get(Get(stk[FrontMost(stk, name)], "let"), name)
\* stk with name set to val in the front-most frame that declares it
WrittenTo(stk, name, val) ==
    [j \in 1..Len(stk) |->
        IF j = FrontMost(stk, name)
        THEN Put(stk[j], "let", Put(Get(stk[j], "let"), name, val)) ELSE stk[j]]
\* the name a function of a scope program reads, and stk with the final values
\* of the variables it assigns to
Assigned(code) == IF code = bumpW THEN "w" ELSE "v"
AfterWrites(code, stk) ==
    CASE code = bumpThrow -> WrittenTo(stk, "v", Num(9))
      [] code = unset -> WrittenTo(WrittenTo(stk, "w", Num(7)), "v", Undefined)
      [] OTHER -> WrittenTo(stk, Assigned(code), Num(Bound(stk, Assigned(code)).v + 1))
\* the frames of stk behind its first catch frame
Caught(stk) ==
    LET first == CHOOSE j \in 1..Len(stk) :
                    /\ Has(stk[j], "catch")
                    /\ \A k \in 1..(j - 1) : ~Has(stk[k], "catch")
    IN  SubSeq(stk, first + 1, Len(stk))

\* C15: a function state that reads a let-bound variable sees the value of the
\* front-most frame that declares it; when it has returned or thrown, the
\* stack is the one it started on with the final value of the variable in
\* that frame and every other frame as it was (less the frames an unwind
\* removed); the function after the inner let sees the outer v as it was when
\* the inner let was entered.
C15_LetScope ==
    ScopeRun =>
        /\ \A i \in 1..Len(hist) :
               (Executed(i).type = "function" /\ Ended(i)) =>
                   LET code == Executed(i).exec.exec
                       written == AfterWrites(code, hist[i].stack)
                   IN  /\ code \in {bump, bumpW} =>
                            ParamsAfter(i) = Obj([seen |-> Bound(hist[i].stack, Assigned(code))])
                       /\ StackAfter(i) = IF code = bumpThrow THEN Caught(written) ELSE written
        /\ \A i \in At(ScopeLast) :
               /\ Len(hist[i].stack) = 1
               /\ Ended(i) => Get(ParamsAfter(i), "seen") = Get(Get(hist[2].stack[1], "let"), "v")

\* C15 for the functions that leave a JSON value in every variable
C15_JSONValues ==
    (ScopeRun /\ prog.body # <<try(F(unset), F(bumpW), NoOptions)>>) => C15_LetScope

\* C16: the FSM a conductor holds is, at every moment of every activation, the
\* FSM it was created with: no let declaration and no literal value of it has
\* changed.
C16_FsmReadOnly == fsm = Load(variant, Build(prog))

\* C16 for the conductor of part_000 alone
C16_OffsetOnly == variant = "offset" => C16_FsmReadOnly

\* C17: a choice state passes control to its then target when params.value is
\* truthy and to its else target otherwise, whatever the type of the value.
C17_ChoiceTruthy ==
    \A i \in 1..Len(hist) :
        (Executed(i).type = "choice" /\ Ended(i)) =>
            IndexAfter(i) =
                Target(variant, hist[i].state.v,
                       IF Truthy(Get(hist[i].params, "value"))
                       THEN Executed(i).then ELSE Executed(i).else).v

\* C17 for the conductor of part_000 alone
C17_OffsetOnly == variant = "offset" => C17_ChoiceTruthy

\* a run of a sequence of actions: state k - 1 is the k-th action
ActionsRun == prog.shape = "sequence" /\ prog.body \in {A("a"), seq(<<A("a"), A("b")>>)} /\ ~forged
Actions == IF prog.body = A("a") THEN <<"a">> ELSE <<"a", "b">>
\* the result the platform delivered to this invocation
ResultDelivered == Delete(request, "$resume")

C18_ErrorEnds ==
    /\ ActionsRun /\ Done
    /\ Len(Actions) = 2 /\ invocation = 2
    /\ Delivered # Undefined

\* the try state at index t is followed by an exit state that leads to its
\* catch target, as in the states of finally
Closed(t) ==
    LET h == Target(variant, t, fsm[t + 1].catch).v
    IN  /\ h >= 1 /\ h <= Len(fsm)
        /\ fsm[h].type = "exit"
        /\ "next" \in DOMAIN fsm[h]
        /\ Target(variant, h - 1, fsm[h].next).v = h

\* C19: a first invocation with an empty stack that runs to its end without
\* any error, in this or a resumed invocation, ends with an empty stack.
C19_Balanced == (~forged /\ Done /\ out.kind = "resolve" /\ ErrorFree) => stack = <<>>

\* C19 for the runs that execute no try state other than the one of a finally
C19_NoTry ==
    (\A i \in 1..Len(hist) : Executed(i).type = "try" => Closed(hist[i].state.v)) => C19_Balanced

\* what the i-th executed state hands to inspect, for the states whose result
\* does not depend on their params: a literal and the failing functions
Handed(i) ==
    CASE Executed(i).type = "literal" -> Executed(i).value
      [] Executed(i).type = "function" /\ Executed(i).exec.exec = fail -> Obj([error |-> Str("e")])
      [] Executed(i).type = "function" /\ Executed(i).exec.exec = failMore ->
           Obj([error |-> Str("e"), x |-> Num(1)])
      [] OTHER -> Undefined
\* the positions of the catch frames of stk
CatchFrames(stk) == {j \in 1..Len(stk) : Get(stk[j], "catch").k = "number"}

\* C20: when a state hands inspect params with a defined error and the stack
\* holds a catch frame, the next state runs with params {error} alone, it is
\* the state the front-most catch frame names, and the stack is what was
\* behind that frame.
C20_InspectUnwind ==
    \A i \in 1..Len(hist) :
        (/\ Ended(i)
         /\ Get(Handed(i), "error") # Undefined
         /\ CatchFrames(hist[i].stack) # {}) =>
            LET stk == hist[i].stack
                first == CHOOSE j \in CatchFrames(stk) : \A k \in CatchFrames(stk) : j <= k
            IN  /\ ParamsAfter(i) = Obj([error |-> Get(Handed(i), "error")])
                /\ IndexAfter(i) = Get(stk[first], "catch").v
                /\ StackAfter(i) = SubSeq(stk, first + 1, Len(stk))

\* a function inside a retain inside a try returned {error, x}: the frame of
\* the retain and the catch frame went, the let frame behind them stayed
C20_Witness ==
    \E i \in 1..Len(hist) :
        /\ Executed(i).type = "function" /\ Executed(i).exec.exec = failMore
        /\ Ended(i)
        /\ Len(hist[i].stack) = 3
        /\ CatchFrames(hist[i].stack) = {2}
        /\ Len(StackAfter(i)) = 1
        /\ ParamsAfter(i) = Obj([error |-> Str("e")])

\* the error the i-th executed state raises with no catch frame on the stack
Uncaught(i) ==
    /\ Ended(i)
    /\ Get(Handed(i), "error") # Undefined
    /\ CatchFrames(hist[i].stack) = {}
\* the error an action result delivers to an invocation resumed with no catch frame
UncaughtResult ==
    /\ Resumed # Undefined /\ WellShaped
    /\ Delivered # Undefined
    /\ Catches = {}

\* C21: after an error raised by a state or delivered by an action result
\* while no catch frame is on the stack, the stack is empty, no further state
\* is executed, and the invocation returns {error: e}.
C21_Uncaught ==
    /\ \A i \in 1..Len(hist) :
           Uncaught(i) =>
               /\ i = Len(hist)
               /\ stack = <<>>
               /\ pc = "loop" => state = Undefined /\ params = Obj([error |-> Get(Handed(i), "error")])
               /\ pc = "idle" => out = Resolve(Obj([error |-> Get(Handed(i), "error")]))
    /\ UncaughtResult =>
           /\ Ran = {}
           /\ stack = <<>>
           /\ pc = "idle" => out = Resolve(Obj([error |-> Delivered]))

\* C21 for errors that are truthy; a falsy error ends the run as well
C21_TruthyError ==
    /\ \A i \in 1..Len(hist) : (Uncaught(i) /\ ~Truthy(Get(Handed(i), "error"))) => i = Len(hist)
    /\ ((\A i \in 1..Len(hist) : Uncaught(i) => Truthy(Get(Handed(i), "error")))
        /\ (UncaughtResult => Truthy(Delivered))) => C21_Uncaught

\* inspect has just run: at the start of a resumed invocation, or as the last
\* statement of the literal, function or pass state executed last
Inspected ==
    /\ pc = "loop"
    /\ IF Ran = {} THEN Resumed # Undefined
       ELSE Executed(Len(hist)).type \in {"literal", "function", "pass"}
\* state, stack and params of a configuration
View(c) == [state |-> c.state, stack |-> c.stack, params |-> c.params]
\* c after the frames up to and including its front-most catch frame are gone,
\* or every frame when it has none
Rethrown(c) ==
    LET frames == CatchFrames(c.stack)
        first == CHOOSE j \in frames : \A k \in frames : j <= k
    IN  IF frames # {}
        THEN [state |-> Get(c.stack[first], "catch"),
              stack |-> SubSeq(c.stack, first + 1, Len(c.stack)), params |-> c.params]
        ELSE [state |-> IF c.stack = <<>> THEN Undefined ELSE Get(c.stack[Len(c.stack)], "catch"),
              stack |-> <<>>, params |-> c.params]

\* C22 as stated: a second inspect right after the first changes nothing.
C22_Idempotent == Inspected => View(inspect(Config)) = View(Config)

\* C22: a second inspect right after the first leaves params as it is; it
\* leaves state and stack as they are when params.error is undefined, or when
\* the first found no catch frame and the stack is empty; with params.error
\* defined it sets state anew and unwinds again, to the next catch frame or
\* to the end of the stack.
C22_IdempotentNoError ==
    Inspected =>
        /\ inspect(Config).params = params
        /\ Get(params, "error") = Undefined => View(inspect(Config)) = View(Config)
        /\ (Get(params, "error") # Undefined /\ state = Undefined /\ stack = <<>>) =>
               View(inspect(Config)) = View(Config)
        /\ Get(params, "error") # Undefined => View(inspect(Config)) = Rethrown(Config)

\* the first inspect found two catch frames and removed one: a second would
\* remove the other and leave the handler the first selected
C22_Witness ==
    /\ Inspected
    /\ Get(params, "error") # Undefined
    /\ state # Undefined
    /\ CatchFrames(stack) # {}
    /\ Ran # {}
    /\ Cardinality(CatchFrames(hist[Len(hist)].stack)) = 2
    /\ View(inspect(Config)) # View(Config)

\* the push state that the pop executed j-th belongs to: the last one executed
\* before it that was compiled from the same construct
Pushes(j) ==
    {i \in 1..(j - 1) : Executed(i).type = "push" /\ Executed(i).path = Executed(j).path}
Matching(j) == CHOOSE i \in Pushes(j) : \A k \in Pushes(j) : k <= i
\* what the push executed i-th saves
Pushed(i) ==
    IF "field" \in DOMAIN Executed(i) THEN Get(hist[i].params, Executed(i).field)
    ELSE hist[i].params
\* no state from the i-th to the j-th executed starts or ends with an error
NoErrorBetween(i, j) ==
    \A k \in i..j : Get(hist[k].params, "error") = Undefined /\ Get(ParamsAfter(k), "error") = Undefined

\* C23: on a path without error a pop leaves in params, or in params.params
\* when it collects, what its push saved.
C23_PushPop ==
    ~forged =>
        \A j \in 1..Len(hist) :
            (Executed(j).type = "pop" /\ Ended(j) /\ Pushes(j) # {}
             /\ NoErrorBetween(Matching(j), j)) =>
                IF "collect" \in DOMAIN Executed(j) /\ Executed(j).collect
                THEN Get(ParamsAfter(j), "params") = Pushed(Matching(j))
                ELSE ParamsAfter(j) = Pushed(Matching(j))

\* C23 for the runs that execute no try state other than the one of a finally
C23_NoTry ==
    (\A i \in 1..Len(hist) : Executed(i).type = "try" => Closed(hist[i].state.v)) => C23_PushPop

\* where the field f of the state at index n of the FSM of part_000 leads
Jump(n, f) == n + fsm[n + 1][f]
PathAt(n) == fsm[n + 1].path
TypeAt(n) == fsm[n + 1].type

\* C24: in the FSM of the relative-offset compiler every next, then, else and
\* catch leads to a state of the FSM; the then and else of an if or while
\* lead to the first state of the consequent and alternate blocks (their pop
\* when params is saved), the catch of a try to the first state of the
\* handler, the catch of a finally to the first state of the finalizer, and
\* the next of the last state of a while body to the first state of the while.
C24_Jumps ==
    variant = "offset" =>
        /\ \A n \in 0..(Len(fsm) - 1) :
               \A f \in Pointers \cap DOMAIN fsm[n + 1] : Jump(n, f) \in 0..(Len(fsm) - 1)
        /\ prog.shape = "if" =>
               /\ TypeAt(IfChoice) = "choice"
               /\ Jump(IfChoice, "then") = Consequent - Saved
               /\ Jump(IfChoice, "else") = Alternate - Saved
               /\ PathAt(Consequent) = PathAt(IfChoice) \o ".consequent"
               /\ PathAt(Alternate) = PathAt(IfChoice) \o ".alternate"
               /\ PathAt(Alternate - Saved - 1) = PathAt(IfChoice) \o ".consequent"
               /\ ~prog.nosave => TypeAt(Consequent - 1) = "pop" /\ TypeAt(Alternate - 1) = "pop"
        /\ prog.shape = "while" =>
               LET choice == WhileTest + 1
                   last == WhileBody + Size(prog.body) - 1
               IN  /\ TypeAt(choice) = "choice"
                   /\ Jump(choice, "then") = WhileBody - Saved
                   /\ Jump(choice, "else") = last + 1
                   /\ PathAt(WhileBody) = PathAt(choice) \o ".body"
                   /\ PathAt(last) = PathAt(choice) \o ".body"
                   /\ Jump(last, "next") = 1
                   /\ PathAt(1) = IF prog.nosave THEN PathAt(choice) \o ":test" ELSE PathAt(choice)
                   /\ TypeAt(1) = IF prog.nosave THEN "function" ELSE "push"
                   /\ TypeAt(0) = "let"
        /\ prog.shape = "try" =>
               /\ TypeAt(1) = "try"
               /\ Jump(1, "catch") = TryHandler
               /\ PathAt(TryHandler) = PathAt(1) \o ".handler"
               /\ PathAt(TryHandler - 1) # PathAt(1) \o ".handler"
        /\ prog.shape = "finally" =>
               /\ TypeAt(1) = "try"
               /\ Jump(1, "catch") = Finalizer
               /\ PathAt(Finalizer) = PathAt(1) \o ".finalizer"
               /\ TypeAt(Finalizer - 1) = "exit"

\* the last state of a while body has jumped back to the push of the while
C24_Witness ==
    /\ variant = "offset"
    /\ prog.shape = "while" /\ ~prog.nosave /\ ~forged
    /\ \E i \in 1..(Len(hist) - 1) :
          /\ hist[i].state.v = WhileBody + Size(prog.body) - 1
          /\ hist[i + 1].state.v = 1
          /\ Jump(hist[i].state.v, "next") = 1

\* the FSM is the one the action was loaded with
Loaded == activation = 0 /\ pc = "idle"
\* the fields of a state other than its pointers and its path annotation
Payload(st) == [f \in DOMAIN st \ (Pointers \cup {"path"}) |-> st[f]]

\* C25: the FSM that __init__ of composer.js builds has the length of the FSM
\* that part_000 compiles from the same composition, the same type and
\* payload at each index, and each of its next, then, else and catch is the
\* index of the state plus the offset part_000 has there.
C25_Equivalent ==
    (variant = "pointer" /\ Loaded) =>
        LET offsets == conductor(Build(prog))
        IN  /\ Len(fsm) = Len(offsets)
            /\ \A i \in 1..Len(fsm) :
                   /\ DOMAIN fsm[i] = DOMAIN offsets[i]
                   /\ Payload(fsm[i]) = Payload(offsets[i])
                   /\ \A f \in Pointers \cap DOMAIN fsm[i] : fsm[i][f] = (i - 1) + offsets[i][f]

\* C25 for the compositions without a literal value that has a type field
C25_NoTypeField ==
    (prog.shape = "sequence" => prog.body # L(Obj([type |-> Str("t")]))) => C25_Equivalent

\* the exit or pop states executed on an empty stack
EmptyPops ==
    {i \in 1..Len(hist) : Executed(i).type \in {"exit", "pop"} /\ hist[i].stack = <<>>}

\* C26: an exit or pop state executed on an empty stack ends the invocation
\* with the rejection {code: 500, error: message naming the state}; it is the
\* last state executed, and stack and params are as it found them.
C26_EmptyStack ==
    \A i \in EmptyPops :
        /\ i = Len(hist)
        /\ pc = "idle"
        /\ out = Reject(Obj([code |-> Num(500),
                             error |-> Str("State " \o ToString(hist[i].state.v)
                                           \o " attempted to pop from an empty stack")]))
        /\ stack = <<>>
        /\ params = hist[i].params

\* C26 for the conductor of part_000 alone
C26_OffsetOnly == variant = "offset" => C26_EmptyStack

\* the pass state that ends the while of a while program
WhilePass == WhileBody + Size(prog.body) + Saved

\* C27: in a run of while(test, body) without nosave and without error every
\* execution of the body starts with the params its iteration's test started
\* with; the pass state that ends the loop is entered with the params the
\* last test started with, which are the params of the entry when the body
\* never ran and the result of the last execution of the body otherwise, and
\* with as many frames as the while was entered with.
C27_WhileSaved ==
    (WhileRun /\ ~prog.nosave /\ ErrorFree) =>
        /\ \A i \in At(WhileBody) : hist[i].params = hist[LastOf(TopsBefore(i))].params
        /\ \A i \in At(WhilePass) :
               /\ hist[i].params = hist[LastOf(TopsBefore(i))].params
               /\ hist[i].params = IF BodiesBefore(i) = {} THEN hist[2].params
                                   ELSE hist[LastOf(TopsBefore(i)) - 1].params
               /\ BodiesBefore(i) # {} => InWhileBody(LastOf(TopsBefore(i)) - 2)
               /\ Len(hist[i].stack) = Len(hist[2].stack)

\* C27 for the bodies in which no try completes
C27_NoTryInBody == (WhileRun /\ prog.body # TryOk) => C27_WhileSaved

\* the try states of try constructs, the first state of their handler, and
\* the states of their body
OpenTries == {t \in 0..(Len(fsm) - 1) : fsm[t + 1].type = "try" /\ ~Closed(t)}
HandlerOf(t) == Target(variant, t, fsm[t + 1].catch).v
BodyOf(t) == (t + 1)..(HandlerOf(t) - 1)
\* the body of the try at t has been left for a state other than its handler
CompletedTry(t) ==
    \E i \in 1..Len(hist) :
        /\ hist[i].state.v \in BodyOf(t)
        /\ Ended(i)
        /\ IndexAfter(i) \notin BodyOf(t) \cup {HandlerOf(t), -1}

\* C28: the first state of the handler of a try is executed only right after
\* a state of the body of that try.
C28_OwnHandler ==
    ~forged =>
        \A t \in OpenTries :
            \A i \in At(HandlerOf(t)) : i > 1 /\ hist[i - 1].state.v \in BodyOf(t)

\* C28 for the runs in which no try has completed without error
C28_NoCompletedTry == (\A t \in OpenTries : ~CompletedTry(t)) => C28_OwnHandler

\* C29: in an activation that starts without $resume and is resumed with the
\* continuations the conductor returned, every exit and pop state is executed
\* with a frame on the stack, and no invocation is rejected for an empty stack.
C29_NeverEmpty ==
    ~forged =>
        /\ \A i \in 1..Len(hist) :
               Executed(i).type \in {"exit", "pop"} => Len(hist[i].stack) >= 1
        /\ (Len(hist) > 0 /\ Executed(Len(hist)).type \in {"exit", "pop"}) => out.kind # "reject"

\* an invocation resumed with an error result has unwound to a handler and has
\* gone on to an exit or pop state, which found a frame
C29_Witness ==
    /\ ~forged
    /\ invocation >= 2
    /\ Delivered # Undefined
    /\ Catches # {}
    /\ \E i \in Ran : Executed(i).type \in {"exit", "pop"} /\ Ended(i) /\ Len(hist[i].stack) >= 1

\* C30: in an activation that starts without $resume on a plain object and is
\* resumed with results that are objects, params is a plain object when a
\* state is entered, in a continuation, and when the activation ends.
C30_PlainObject ==
    ~forged =>
        /\ \A i \in 1..Len(hist) : isObject(hist[i].params)
        /\ pc = "loop" => isObject(params)
        /\ IsContinuation(out) => isObject(Get(out.value, "params"))
        /\ Done => isObject(params) /\ out.kind = "resolve"

\* C30 for the runs that execute no try state other than the one of a finally
C30_NoTry ==
    (\A i \in 1..Len(hist) : Executed(i).type = "try" => Closed(hist[i].state.v)) => C30_PlainObject

\* a run of repeat(m, repeat(n, body)): the inner let is the body of the outer
\* repeat, its test follows its push, and the body is the body of the inner repeat
NestedRun == prog.shape = "nested" /\ ~forged
InnerLet == RepeatBody
InnerTest == InnerLet + 2
NestedBody == InnerLet + RepeatBody
\* the count of the frame of the outer let, the deepest frame of stk
OuterCount(stk) == Get(Get(stk[Len(stk)], "let"), "count")

\* C31: in a run of repeat(m, repeat(n, body)) without error the body is never
\* executed more than m * n times and exactly m * n times when the run has
\* ended; every execution of the inner let state puts a frame with count n in
\* front, and the test of the inner repeat leaves the count of the outer
\* frame as it was.
C31_NestedRepeat ==
    (NestedRun /\ ErrorFree) =>
        /\ Cardinality(At(NestedBody)) <= prog.outer * prog.inner
        /\ Done => Cardinality(At(NestedBody)) = prog.outer * prog.inner
        /\ \A i \in At(InnerLet) :
               Ended(i) => Get(StackAfter(i)[1], "let") = Obj([count |-> Num(prog.inner)])
        /\ \A i \in At(InnerTest) :
               Ended(i) => OuterCount(StackAfter(i)) = OuterCount(hist[i].stack)

\* C31 for the conductor of part_000 alone
C31_OffsetOnly == variant = "offset" => C31_NestedRepeat

\* retry_3, which hands out the result of the retry, and the exit of its let,
\* the last two states of the FSM of retry(n, body)
RetryResult == Len(fsm) - 2
RetryExit == Len(fsm) - 1
\* the end of the k-th attempt, the attempts and their ends taken in order
EndOf(k) == CHOOSE e \in AttemptEnds : Cardinality({j \in AttemptEnds : j <= e}) = k

\* C32: in a run of retry(n, body) at most n + 1 attempts start, each with the
\* params the first attempt started with; once retry_3 has run every attempt
\* but the last has failed, the last one has succeeded or is attempt n + 1,
\* and params is the result of the last attempt; the exit of the let leaves
\* the stack as the let found it.
C32_RetryIndependent ==
    RetryRun =>
        /\ Cardinality(Attempts) <= prog.count + 1
        /\ \A i \in Attempts : hist[i].params = hist[1].params
        /\ \A r \in At(RetryResult) :
               Ended(r) =>
                   /\ Cardinality(AttemptEnds) = Cardinality(Attempts)
                   /\ \A k \in 1..(Cardinality(AttemptEnds) - 1) : Failed(EndOf(k))
                   /\ \/ ~Failed(LastOf(AttemptEnds))
                      \/ Cardinality(Attempts) = prog.count + 1
                   /\ ParamsAfter(r) = hist[LastOf(AttemptEnds)].params
        /\ \A x \in At(RetryExit) : Ended(x) => StackAfter(x) = hist[1].stack

\* C32 for part_000 and a body in which no try completes
C32_OffsetNoTry ==
    (RetryRun /\ variant = "offset" /\ prog.body # TryOk) => C32_RetryIndependent

\* a run of try(body, handler) followed by a function, alone or as the body of
\* an enclosing try: the try state, the body, the handler, the pass state that
\* ends the try, the function that follows, and the handler of the enclosing try
RethrowRun == prog.shape = "rethrow" /\ ~forged
InnerTry == IF prog.enclosed THEN 1 ELSE 0
InnerHandler == InnerTry + 1 + Size(prog.body)
InnerPass == InnerHandler + Size(prog.handler)
Following == InnerPass + 1
OuterHandler == Following + 1
\* the executions of the last state of the handler that end with a defined error
\* in params: a function without result or the pass state of an empty handler
HandlerEnds ==
    {i \in At(InnerPass - 1) :
        /\ Ended(i) /\ Failed(i)
        /\ \/ Executed(i).type = "pass"
           \/ Executed(i).type = "function" /\ Executed(i).exec.exec = noop}
\* the error leaves the try after the i-th executed state: the handler of the
\* enclosing try runs next with {error} alone, or the run ends with that error
Propagates(i) ==
    LET error == Obj([error |-> Get(hist[i].params, "error")])
    IN  IF prog.enclosed
        THEN IndexAfter(i) = OuterHandler /\ ParamsAfter(i) = error
        ELSE IndexAfter(i) = -1 /\ (Done => out = Resolve(error))

\* C33: when the handler of a try ends with a defined error in params, the pass
\* state that ends the try runs next and the error leaves the try from there,
\* to the handler of the enclosing try or to a terminal error; the state that
\* follows the try is not executed.
C33_Rethrow ==
    RethrowRun =>
        \A i \in HandlerEnds :
            /\ IndexAfter(i) = InnerPass
            /\ \A p \in At(InnerPass) : Ended(p) => Propagates(p)
            /\ At(Following) = {}

\* C33 without the pass state: the error leaves the try from the last state of
\* the handler
C33_FromHandler ==
    RethrowRun => \A i \in HandlerEnds : Propagates(i) /\ At(Following) = {}

\* C33_FromHandler for errors that are truthy
C33_TruthyError ==
    (RethrowRun /\ \A i \in HandlerEnds : Truthy(Get(hist[i].params, "error")))
        => C33_FromHandler

\* the pass state that ends a try never runs after a handler that ends with an
\* error
C33_PassSkipped == RethrowRun => (HandlerEnds # {} => At(InnerPass) = {})

====
